---- MODULE Spec2Model ----
(***************************************************************************)
(* The reactive core of src/lib/signal.ts: signals, computeds, effects and *)
(* the batch / asyncBatch / flush scheduler, as a state machine.           *)
(*                                                                         *)
(* The reactive graph is the one the signal tests build: three signals     *)
(* a, b, c, the computeds sum = a + b, dyn = c ? a : b, fin = sum + b, and *)
(* effects that store what they read in `observed`.  A client issues the   *)
(* public operations one statement at a time; batch(fn) and asyncBatch(fn) *)
(* are split into an enter step, the statements of fn, and an exit step    *)
(* (the finally block).  The error scenarios add a computed and an effect  *)
(* whose function throws, a computed that reads itself, two computeds that *)
(* read each other, and an effect that returns a cleanup function.  An     *)
(* exception in flight is the field `thrown`; at rest it holds what the    *)
(* latest statement threw to the client.  Cleanup functions and the error  *)
(* handlers themselves do not throw.                                       *)
(***************************************************************************)
EXTENDS Integers, Sequences, FiniteSets, TLC

\* ------------------------------------------------------------- bounds
MaxVal == 1
MaxDepth == 2
MaxLeak == 4
\* The depth the reentrant safety check compares with (10 in the source),
\* lowered with the counter of the effect that writes what it reads, so that
\* the nesting beyond it stays within what can be evaluated.
ReentrantCap == 3

\* ------------------------------------------------------------- the graph
Signals == {"a", "b", "c", "n"}
Computeds == {"sum", "dyn", "fin", "guarded", "circ", "ping", "pong"}
Effects == {"eSum", "eCond", "eDyn", "eFin", "eBoth", "eGuard", "eClean",
            "ePeek", "ePeekSum", "eNest", "eDeep", "eLoop", "eBatch", "eA", "eB", "eKill", "eSour", "eFail", "eLate"}
\* The callbacks the client passes to subscribe.
Listeners == {"f", "g", "t"}
Cells == Signals \cup Computeds
Nodes == Computeds \cup Effects
Val == 0..MaxVal
\* undefined, as the value of a number-valued field.
Undefined == 0 - 1
\* null, as the top of an empty subscriberStack.
Null == "null"
\* No exception in flight; null as the value of ComputedImpl._error.
NoError == "none"

\* The statements of a function written as a sequence:
\*   read x       x.value, added to the result
\*   touch x      x.value; with the value discarded
\*   untracked    untracked(() => {
\*   end          })
\*   caught       try { untracked(() => { throw new Error() }) } catch {}
\*   bump x       if (x.value < ReentrantCap) x.value = x.value + 1
\*   batch        batch(() => {
\*   reset x        x.value = 0
\*   endbatch     })
\*   dispose e    if (disposeE) disposeE(), the disposer of effect e once
\*                effect(...) has returned it
Do(do, cell) == [do |-> do, cell |-> cell]

\* The user functions: computeFn of each computed, fn of each effect.
Fn(n) ==
  CASE n = "sum"   -> [op |-> "add",  args |-> <<"a", "b">>]
    [] n = "dyn"   -> [op |-> "cond", args |-> <<"c", "a", "b">>]
    [] n = "fin"   -> [op |-> "add",  args |-> <<"sum", "b">>]
    [] n = "eSum"  -> [op |-> "read", args |-> <<"sum">>]
    [] n = "eCond" -> [op |-> "cond", args |-> <<"c", "a", "b">>]
    [] n = "eDyn"  -> [op |-> "read", args |-> <<"dyn">>]
    [] n = "eFin"  -> [op |-> "read", args |-> <<"fin">>]
    [] n = "eBoth" -> [op |-> "add",  args |-> <<"a", "sum">>]
    [] n = "eA"    -> [op |-> "read", args |-> <<"a">>]
    [] n = "eB"    -> [op |-> "read", args |-> <<"b">>]
    [] n = "eLate" -> [op |-> "read", args |-> <<"a">>]
    [] n = "guarded" -> [op |-> "guard", args |-> <<"b", "a">>, error |-> "Computed error"]
    [] n = "eGuard"  -> [op |-> "guard", args |-> <<"b", "a">>, error |-> "Effect error"]
    [] n = "eClean"  -> [op |-> "read",  args |-> <<"a">>]
    [] n = "eSour"   -> [op |-> "read",  args |-> <<"a">>]
    [] n = "eFail"   -> [op |-> "guard", args |-> <<"b", "a">>, error |-> "Effect error"]
    [] n = "circ"    -> [op |-> "read",  args |-> <<"circ">>]
    [] n = "ping"    -> [op |-> "read",  args |-> <<"pong">>]
    [] n = "pong"    -> [op |-> "read",  args |-> <<"ping">>]
    [] n = "ePeek"    -> [op |-> "seq", body |-> <<Do("read", "a"), Do("untracked", Null),
                                                   Do("read", "b"), Do("end", Null)>>]
    [] n = "ePeekSum" -> [op |-> "seq", body |-> <<Do("read", "a"), Do("untracked", Null),
                                                   Do("read", "sum"), Do("end", Null)>>]
    [] n = "eNest"    -> [op |-> "seq", body |-> <<Do("untracked", Null), Do("untracked", Null),
                                                   Do("read", "a"), Do("end", Null),
                                                   Do("read", "b"), Do("end", Null),
                                                   Do("caught", Null), Do("touch", "c")>>]
    [] n = "eBatch"   -> [op |-> "seq",
                          body |-> <<Do("read", "a"), Do("batch", Null), Do("reset", "b"),
                                     Do("endbatch", Null)>>]
    [] n = "eLoop"    -> [op |-> "seq", body |-> <<Do("bump", "n")>>]
    [] n = "eKill"    -> [op |-> "seq", body |-> <<Do("read", "a"), Do("dispose", "eA")>>]
    [] n = "eDeep"    -> [op |-> "seq", body |-> <<Do("untracked", Null), Do("read", "fin"),
                                                   Do("end", Null)>>]

\* The effect functions that return a cleanup function.
ReturnsCleanup(e) == e \in {"eClean", "eSour", "eFail"}

\* The effect whose cleanup is
\*   () => { cleanupRuns++; if (cleanupRuns === 1) throw new Error("Cleanup error") }
ThrowingCleanup(e) == e = "eSour"

\* A guard function adds its two reads and throws when the second is 1.
Fails(v) == v = 1

CircularError == "Circular dependency detected"
ReentrantError == "Maximum reentrant depth exceeded"
ReadOnlyError == "Cannot set value on computed"
SubscriptionError == "Subscription error"
CleanupError == "Cleanup error"

\* The values a signal may be given: c is the boolean condition of the tests.
\* n is the counter of the effect that writes what it reads.
ValOf(s) == IF s = "c" THEN BOOLEAN ELSE IF s = "n" THEN 0..ReentrantCap ELSE Val

\* Truthiness of the condition of a conditional expression.
Truthy(v) == v = TRUE

\* The programs under test: the effects created (in this order) and what
\* the client does: the signals it writes, the computeds it reads, whether
\* it writes outside of batch and asyncBatch (plain), whether it calls batch
\* and asyncBatch (scoped) and whether it calls flush (flushes).
\* What a scenario leaves out.
Quiet ==
  [effects |-> <<>>, creates |-> {}, writes |-> {}, reads |-> {}, assigns |-> {},
   subscribes |-> {}, callbacks |-> {"f", "g"},
   plain |-> FALSE, scoped |-> FALSE, flushes |-> FALSE, disposes |-> FALSE,
   handler |-> FALSE, boundary |-> Null, onRecover |-> FALSE]

Scenarios ==
  { [Quiet EXCEPT !.effects = <<"eSum">>,  !.writes = {"a", "b"}, !.reads = {"sum"},
                  !.plain = TRUE, !.scoped = TRUE, !.flushes = TRUE],
    [Quiet EXCEPT !.effects = <<"eCond">>, !.writes = {"a", "b", "c"},
                  !.plain = TRUE, !.scoped = TRUE],
    [Quiet EXCEPT !.effects = <<"eDyn">>,  !.writes = {"a", "b", "c"},
                  !.plain = TRUE, !.scoped = TRUE],
    [Quiet EXCEPT !.effects = <<"eFin">>,  !.writes = {"a", "b"}, !.reads = {"fin"},
                  !.plain = TRUE],
    [Quiet EXCEPT !.effects = <<"eFin">>,  !.writes = {"b"}, !.scoped = TRUE],
    \* an effect that throws, with a global handler and a boundary
    [Quiet EXCEPT !.effects = <<"eGuard">>, !.writes = {"a", "b"}, !.plain = TRUE,
                  !.handler = TRUE, !.boundary = "eGuard", !.onRecover = TRUE],
    \* an effect that throws, with neither, written in scopes as well
    [Quiet EXCEPT !.effects = <<"eGuard">>, !.writes = {"a"},
                  !.plain = TRUE, !.scoped = TRUE, !.flushes = TRUE],
    \* a computed that throws, read and assigned by the client
    [Quiet EXCEPT !.writes = {"a", "c"}, !.reads = {"guarded"}, !.assigns = {"guarded"},
                  !.plain = TRUE, !.handler = TRUE, !.boundary = "guarded"],
    \* the same computed, read and assigned inside scopes
    [Quiet EXCEPT !.reads = {"guarded"}, !.assigns = {"guarded"}, !.scoped = TRUE],
    \* an assignment to a computed that throws inside scopes holding writes
    [Quiet EXCEPT !.effects = <<"eSum">>, !.writes = {"a"}, !.assigns = {"sum"},
                  !.scoped = TRUE],
    \* effects that read inside untracked
    [Quiet EXCEPT !.effects = <<"ePeek">>, !.writes = {"a", "b"}, !.plain = TRUE],
    [Quiet EXCEPT !.effects = <<"ePeekSum">>, !.writes = {"a", "b"}, !.reads = {"sum"},
                  !.plain = TRUE],
    [Quiet EXCEPT !.effects = <<"eNest">>, !.writes = {"a", "b", "c"}, !.plain = TRUE],
    [Quiet EXCEPT !.effects = <<"eDeep">>, !.writes = {"a", "b"}, !.reads = {"fin"},
                  !.plain = TRUE],
    \* an effect that writes the signal it reads
    [Quiet EXCEPT !.effects = <<"eLoop">>, !.writes = {"n"}, !.plain = TRUE],
    \* callbacks subscribed to a signal that an effect reads as well
    [Quiet EXCEPT !.effects = <<"eSum">>, !.writes = {"a"}, !.subscribes = {"a"},
                  !.plain = TRUE],
    \* callbacks subscribed and written inside scopes
    [Quiet EXCEPT !.writes = {"a"}, !.subscribes = {"a"}, !.plain = TRUE, !.scoped = TRUE],
    \* an effect that writes inside a batch of its own
    [Quiet EXCEPT !.effects = <<"eBatch">>, !.writes = {"a", "b"}, !.reads = {"sum"},
                  !.plain = TRUE, !.scoped = TRUE],
    \* an effect that reads a signal directly and through a computed
    [Quiet EXCEPT !.effects = <<"eBoth">>, !.writes = {"a", "b"}, !.plain = TRUE],
    \* two effects on two signals, written inside scopes
    [Quiet EXCEPT !.effects = <<"eA", "eB">>, !.writes = {"a", "b"}, !.scoped = TRUE],
    \* an effect that disposes the effect after it in the listener pass
    [Quiet EXCEPT !.effects = <<"eKill", "eA">>, !.writes = {"a"},
                  !.plain = TRUE, !.scoped = TRUE],
    \* a callback that throws at its first call, beside another and an effect
    [Quiet EXCEPT !.effects = <<"eA">>, !.writes = {"a"}, !.subscribes = {"a"},
                  !.callbacks = {"f", "t"}, !.plain = TRUE],
    \* an effect whose cleanup throws at its first call
    [Quiet EXCEPT !.effects = <<"eSour">>, !.writes = {"a"}, !.plain = TRUE,
                  !.disposes = TRUE],
    \* an effect that returns a cleanup unless it throws
    [Quiet EXCEPT !.effects = <<"eFail">>, !.writes = {"a"}, !.plain = TRUE,
                  !.disposes = TRUE],
    \* an effect the client creates later, inside a scope or outside
    [Quiet EXCEPT !.creates = {"eLate"}, !.writes = {"a"},
                  !.plain = TRUE, !.scoped = TRUE],
    \* computeds that read themselves
    [Quiet EXCEPT !.reads = {"circ", "ping", "pong"}, !.plain = TRUE],
    \* an effect with a cleanup function, disposed by the client
    [Quiet EXCEPT !.effects = <<"eClean">>, !.writes = {"a"},
                  !.plain = TRUE, !.scoped = TRUE, !.disposes = TRUE] }

\* ------------------------------------------------------------- state
VARIABLES
  value,               \* SignalImpl._value
  subscribers,         \* SignalImpl.subscribers / ComputedImpl.subscribers (insertion-ordered sets)
  cValue,              \* ComputedImpl._value
  dirty,               \* ComputedImpl._dirty
  dependencies,        \* ComputedImpl.dependencies / createEffect dependencies
  unsubscribeFns,      \* ComputedImpl.unsubscribeFns / createEffect unsubscribeFns
  isDisposed,          \* createEffect isDisposed
  cError,              \* ComputedImpl._error
  errorCount,          \* createEffect errorCount
  cleanup,             \* createEffect cleanup: whether a cleanup function is stored
  isInErrorState,      \* module global
  thrown,              \* the exception in flight; at rest, what the latest statement threw
  currentSubscriber,   \* module global
  subscriberStack,     \* module global
  isUntracked,         \* module global
  isBatching,          \* module global
  isAsyncBatching,     \* module global
  asyncBatchingDepth,  \* module global
  flushScheduled,      \* module global
  isReentrant,         \* module global
  reentrantDepth,      \* module global
  isFlushingEffects,   \* module global
  dirtyComputeds,      \* module global (insertion-ordered set)
  pendingEffects,      \* module global (insertion-ordered set)
  microtasks,          \* host queue: deferred flush callbacks not yet run
  stack,               \* open batch / asyncBatch calls: saved prevBatching / prevAsyncBatching
  created,             \* the effects of the program under test
  client,              \* the program under test: what its client does
  observed,            \* what each effect function stored at its latest run
  runs,                \* history: runs of each effect function in the current top-level statement
  lastReads,           \* history: the cells each function read at its latest run
  written,             \* history: signals changed in the current top-level statement
  hist,                \* history: shape of the current top-level statement
  startedInBatch,      \* history: effects whose function started while a batch was open
  staleAtStart,        \* history: computeds that were dirty when a flushed effect started
  coalesced,           \* history: scheduleFlush was called with a flush already scheduled
  deepest,             \* history: the longest subscriberStack of the latest statement
  held,                \* the unsubscribe closures the client holds
  called,              \* history: calls of each callback in the current top-level statement
  cleanExecs,          \* history: executions of each computeFn with _dirty false, same statement
  skewed,              \* history: an effect function started with isReentrant unlike isFlushingEffects
  nestedFlushRan,      \* history: a flush requested while isReentrant was set ran an effect or left a computed dirty
  nestedFlushes,       \* history: flushes requested while isReentrant was set, same statement
  deepestFlush,        \* history: the largest reentrantDepth of the statement
  offTop,              \* history: some function started or ended with another node on top of subscriberStack
  bornInBatch,         \* history: the effects created while a batch or asyncBatch was open
  dirtyNotifyChanged,  \* history: some notify() on a dirty computed changed the state
  dirtyNotifies,       \* history: notify() calls that found each computed dirty, same statement
  passes,              \* listener passes of each computed since its last recompute() ended
  cleanupRuns,         \* cleanupRuns of the cleanup that throws at its first call; 2 stands for two calls or more
  callbackRuns,        \* callbackRuns of the callback that throws at its first call; 2 stands for two calls or more
  atDisposed,          \* history: what the calls of each runner that found its effect disposed did, same statement
  firstQueued,         \* history: the effects of pendingEffects in the order they were first added
  ranOrder,            \* history: the effects run in the current statement, in order
  reported,            \* history: handler calls made by handleError in the current statement
  cleanups,            \* history: calls of each effect's cleanup in the current statement
  execs,               \* history: executions of each computeFn in the current statement
  failed               \* history: the functions that threw in the current statement

vars == <<value, subscribers, cValue, dirty, dependencies, unsubscribeFns, isDisposed,
          currentSubscriber, subscriberStack, isUntracked, isBatching, isAsyncBatching,
          asyncBatchingDepth, flushScheduled, isReentrant, reentrantDepth,
          isFlushingEffects, dirtyComputeds, pendingEffects, microtasks, stack, created,
          client, observed, runs, lastReads, written, hist, startedInBatch,
          staleAtStart, coalesced, deepest, held, called, cleanExecs, skewed, nestedFlushRan, nestedFlushes, deepestFlush, offTop, bornInBatch, dirtyNotifyChanged, dirtyNotifies, passes, cleanupRuns, callbackRuns, atDisposed, firstQueued, ranOrder, cError, errorCount, cleanup, isInErrorState, thrown,
          reported, cleanups, execs, failed>>

\* The state as one record, so that the operations below are functions on it.
St ==
  [value |-> value, subscribers |-> subscribers, cValue |-> cValue, dirty |-> dirty,
   dependencies |-> dependencies, unsubscribeFns |-> unsubscribeFns,
   isDisposed |-> isDisposed, currentSubscriber |-> currentSubscriber,
   subscriberStack |-> subscriberStack, isUntracked |-> isUntracked,
   isBatching |-> isBatching, isAsyncBatching |-> isAsyncBatching,
   asyncBatchingDepth |-> asyncBatchingDepth, flushScheduled |-> flushScheduled,
   isReentrant |-> isReentrant, reentrantDepth |-> reentrantDepth,
   isFlushingEffects |-> isFlushingEffects, dirtyComputeds |-> dirtyComputeds,
   pendingEffects |-> pendingEffects, microtasks |-> microtasks, stack |-> stack,
   created |-> created, client |-> client, observed |-> observed, runs |-> runs,
   lastReads |-> lastReads, written |-> written, hist |-> hist,
   startedInBatch |-> startedInBatch, staleAtStart |-> staleAtStart,
   coalesced |-> coalesced, deepest |-> deepest, held |-> held, called |-> called, cleanExecs |-> cleanExecs, skewed |-> skewed, nestedFlushRan |-> nestedFlushRan, nestedFlushes |-> nestedFlushes, deepestFlush |-> deepestFlush, offTop |-> offTop, bornInBatch |-> bornInBatch, dirtyNotifyChanged |-> dirtyNotifyChanged, dirtyNotifies |-> dirtyNotifies, passes |-> passes, cleanupRuns |-> cleanupRuns, callbackRuns |-> callbackRuns, atDisposed |-> atDisposed, firstQueued |-> firstQueued, ranOrder |-> ranOrder,
   cError |-> cError, errorCount |-> errorCount,
   cleanup |-> cleanup, isInErrorState |-> isInErrorState, thrown |-> thrown,
   reported |-> reported, cleanups |-> cleanups, execs |-> execs, failed |-> failed]

Install(S) ==
  /\ value' = S.value /\ subscribers' = S.subscribers /\ cValue' = S.cValue
  /\ dirty' = S.dirty /\ dependencies' = S.dependencies
  /\ unsubscribeFns' = S.unsubscribeFns /\ isDisposed' = S.isDisposed
  /\ currentSubscriber' = S.currentSubscriber /\ subscriberStack' = S.subscriberStack
  /\ isUntracked' = S.isUntracked /\ isBatching' = S.isBatching
  /\ isAsyncBatching' = S.isAsyncBatching /\ asyncBatchingDepth' = S.asyncBatchingDepth
  /\ flushScheduled' = S.flushScheduled /\ isReentrant' = S.isReentrant
  /\ reentrantDepth' = S.reentrantDepth /\ isFlushingEffects' = S.isFlushingEffects
  /\ dirtyComputeds' = S.dirtyComputeds /\ pendingEffects' = S.pendingEffects
  /\ microtasks' = S.microtasks /\ stack' = S.stack /\ created' = S.created
  /\ client' = S.client
  /\ observed' = S.observed /\ runs' = S.runs
  /\ lastReads' = S.lastReads /\ written' = S.written /\ hist' = S.hist
  /\ startedInBatch' = S.startedInBatch /\ staleAtStart' = S.staleAtStart
  /\ held' = S.held /\ called' = S.called /\ cleanExecs' = S.cleanExecs
  /\ skewed' = S.skewed
  /\ nestedFlushRan' = S.nestedFlushRan
  /\ nestedFlushes' = S.nestedFlushes
  /\ deepestFlush' = S.deepestFlush
  /\ offTop' = S.offTop
  /\ bornInBatch' = S.bornInBatch
  /\ dirtyNotifyChanged' = S.dirtyNotifyChanged
  /\ dirtyNotifies' = S.dirtyNotifies
  /\ passes' = S.passes
  /\ cleanupRuns' = S.cleanupRuns
  /\ callbackRuns' = S.callbackRuns
  /\ atDisposed' = S.atDisposed
  /\ firstQueued' = S.firstQueued
  /\ ranOrder' = S.ranOrder
  /\ coalesced' = S.coalesced /\ deepest' = S.deepest /\ cError' = S.cError /\ errorCount' = S.errorCount
  /\ cleanup' = S.cleanup /\ isInErrorState' = S.isInErrorState /\ thrown' = S.thrown
  /\ reported' = S.reported /\ cleanups' = S.cleanups /\ execs' = S.execs
  /\ failed' = S.failed

\* ------------------------------------------------------------- helpers
Range(s) == {s[i] : i \in 1..Len(s)}

\* Set.add on an insertion-ordered set.
SetAdd(s, x) == IF x \in Range(s) THEN s ELSE Append(s, x)

\* Set.delete on an insertion-ordered set.
SetDelete(s, x) == SelectSeq(s, LAMBDA y : y # x)

\* The listener functions held in a subscribers set.
NoFn == [kind |-> "null", id |-> "null", k |-> 0]
Runner(e) == [kind |-> "runner", id |-> e, k |-> 0]
\* A callback of the client: () => { callbackCalled++ }
Callback(f) == [kind |-> "listener", id |-> f, k |-> 0]
\* () => this.notify() made by ComputedImpl.onDependencySubscribe; k is its
\* position in unsubscribeFns, which identifies it among the live arrows.
NotifyArrow(c, k) == [kind |-> "notify", id |-> c, k |-> k]
\* () => this.notify() made by recompute as currentSubscriber, one per recompute.
CurrentArrow(c, k) == [kind |-> "current", id |-> c, k |-> k]

\* The arrows of kind "current" a computed has left in subscribers sets.
CurrentArrows(S, c) ==
  {l \in UNION {Range(S.subscribers[x]) : x \in Cells} : l.kind = "current" /\ l.id = c}

TotalCurrentArrows(S) ==
  Cardinality({l \in UNION {Range(S.subscribers[x]) : x \in Cells} : l.kind = "current"})

\* What the functions denote on given signal values, and the signals they
\* depend on there (read directly or through computeds).
RECURSIVE Den(_, _), DenSeq(_, _, _)
Den(x, val) ==
  IF x \in Signals THEN val[x]
  ELSE LET f == Fn(x) IN
       CASE f.op = "read" -> Den(f.args[1], val)
         [] f.op = "seq"  -> DenSeq(f.body, 1, val)
         [] f.op \in {"add", "guard"} -> Den(f.args[1], val) + Den(f.args[2], val)
         [] f.op = "cond" -> IF Truthy(Den(f.args[1], val)) THEN Den(f.args[2], val)
                                                        ELSE Den(f.args[3], val)

\* The sum of the reads of a sequence from statement i on.
DenSeq(body, i, val) ==
  IF i > Len(body) THEN 0
  ELSE (IF body[i].do \in {"read", "bump"} THEN Den(body[i].cell, val) ELSE 0)
       + DenSeq(body, i + 1, val)

\* The cells a sequence reads from statement i on outside of every untracked
\* call; depth is the number of untracked calls open at i.
RECURSIVE TrackedReads(_, _, _)
TrackedReads(body, i, depth) ==
  IF i > Len(body) THEN {}
  ELSE CASE body[i].do = "untracked" -> TrackedReads(body, i + 1, depth + 1)
         [] body[i].do = "end"       -> TrackedReads(body, i + 1, depth - 1)
         [] body[i].do = "caught"    -> TrackedReads(body, i + 1, depth)
         [] body[i].do \in {"read", "touch", "bump"} ->
              (IF depth = 0 THEN {body[i].cell} ELSE {}) \cup TrackedReads(body, i + 1, depth)
         [] OTHER -> TrackedReads(body, i + 1, depth)

\* The cells every statement of a sequence reads.
AllReads(body) ==
  {body[i].cell : i \in {j \in DOMAIN body : body[j].do \in {"read", "touch", "bump"}}}

\* The cells the function of node n reads when the signals hold val; for an
\* effect, the reads it makes outside of untracked.
DirectReads(n, val) ==
  LET f == Fn(n) IN
  CASE f.op = "read" -> {f.args[1]}
    [] f.op = "seq"  -> IF n \in Effects THEN TrackedReads(f.body, 1, 0) ELSE AllReads(f.body)
    [] f.op \in {"add", "guard"} -> {f.args[1], f.args[2]}
    [] f.op = "cond" -> {f.args[1]} \cup
                        (IF Truthy(Den(f.args[1], val)) THEN {f.args[2]} ELSE {f.args[3]})

\* ------------------------------------------------------------- reads
\* Operators take the state they work on as a parameter and continue in a
\* second operator where the source continues after a call.

\* onDependencySubscribe of a computed or of an effect's subscriber object.
OnDependencySubscribe(S, n, cell) ==
  LET fn == IF n \in Computeds THEN NotifyArrow(n, Len(S.unsubscribeFns[n]) + 1)
                               ELSE Runner(n)
  IN [S EXCEPT !.dependencies[n] = @ \cup {cell},
               !.subscribers[cell] = SetAdd(@, fn),
               !.unsubscribeFns[n] = Append(@, [cell |-> cell, fn |-> fn])]

\* unsubscribeFns.forEach((unsubscribe) => unsubscribe())
RECURSIVE CallUnsubscribeFns(_, _, _)
CallUnsubscribeFns(S, n, i) ==
  IF i > Len(S.unsubscribeFns[n]) THEN S
  ELSE CallUnsubscribeFns(
         [S EXCEPT !.subscribers[S.unsubscribeFns[n][i].cell] =
                      SetDelete(@, S.unsubscribeFns[n][i].fn)], n, i + 1)

\* A teardown that forgets the subscriptions without cancelling them.
KeepSubscriptions(S, n) ==
  [S EXCEPT !.dependencies[n] = {}, !.unsubscribeFns[n] = <<>>]

\* The teardown at the start of recompute and of run.
ClearDependencies(S, n) ==
  [CallUnsubscribeFns([S EXCEPT !.dependencies[n] = {}], n, 1)
     EXCEPT !.unsubscribeFns[n] = <<>>]

Top(S) == IF S.subscriberStack = <<>> THEN Null ELSE S.subscriberStack[Len(S.subscriberStack)]

Pop(S) == [S EXCEPT !.subscriberStack = SubSeq(@, 1, Len(@) - 1)]

\* subscriberStack.push(n)
Push(S, n) ==
  [S EXCEPT !.subscriberStack = Append(@, n),
            !.deepest = IF Len(S.subscriberStack) + 1 > @
                        THEN Len(S.subscriberStack) + 1 ELSE @]

\* The reentrant safety check of the getters and of run().
TooDeep(S) == S.isReentrant /\ S.reentrantDepth > ReentrantCap

Result(S, v) == [S |-> S, v |-> v]

\* try { eff() } catch (e) {}: what eff throws goes no further.
Swallow(S) == [S EXCEPT !.thrown = NoError]

\* throw err
Throw(S, err) == Result([S EXCEPT !.thrown = err], Undefined)

Threw(r) == r.S.thrown # NoError

\* handleError: the global handler if one is set, then onRecover of the
\* boundary registered for the subscriber.  onError is not called.
HandleError(S, context, n) ==
  [S EXCEPT !.isInErrorState = TRUE,
            !.reported =
               @ \o (IF S.client.handler
                     THEN <<[to |-> "globalErrorHandler", context |-> context]>>
                     ELSE <<>>)
                 \o (IF n # Null /\ n = S.client.boundary /\ S.client.onRecover
                     THEN <<[to |-> "onRecover", context |-> context]>>
                     ELSE <<>>)]

\* safeExecute, after fn has returned or thrown: r is the outcome of fn.
SafeExecute(r, context, n) ==
  IF Threw(r)
  THEN Result(HandleError([r.S EXCEPT !.failed = @ \cup {n}], context, n), r.v)
  ELSE r

\* A signal getter that registers the reader whether or not it is untracked.
SignalGetTracked(S, s) ==
  IF Top(S) # Null
  THEN Result(OnDependencySubscribe(S, Top(S), s), S.value[s])
  ELSE Result(S, S.value[s])

\* get value of a signal.
SignalGet(S, s) ==
  IF TooDeep(S) THEN Throw(S, ReentrantError)
  ELSE IF Top(S) # Null /\ (~S.isUntracked \/ Top(S) \in Computeds)
  THEN Result(OnDependencySubscribe(S, Top(S), s), S.value[s])
  ELSE Result(S, S.value[s])

RECURSIVE Get(_, _), SignalSet(_, _, _), Exec(_, _), Recompute(_, _), ComputedGet(_, _)
RECURSIVE Run(_, _), CallFn(_, _), ComputedNotify(_, _), BatchBegin(_), BatchFinally(_)
RECURSIVE Disposer(_, _)

Plus(v, r2) == IF Threw(r2) THEN r2 ELSE Result(r2.S, v + r2.v)

\* The end of a guard function: throw, or return the sum.
GuardEnd(f, v, r2) ==
  IF Threw(r2) THEN r2
  ELSE IF Fails(r2.v) THEN Throw(r2.S, f.error)
  ELSE Result(r2.S, v + r2.v)

\* The cell a function reads second, after reading v first.
Second(f, v) ==
  IF f.op = "cond" THEN (IF Truthy(v) THEN f.args[2] ELSE f.args[3]) ELSE f.args[2]

\* The end of a function that read v first, after its second read r2.
AfterSecond(f, v, r2) ==
  CASE f.op = "add"   -> Plus(v, r2)
    [] f.op = "guard" -> GuardEnd(f, v, r2)
    [] f.op = "cond"  -> r2

\* The rest of a function after its first read r1; a read that throws ends it.
ExecRest(f, r1) ==
  IF Threw(r1) \/ f.op = "read" THEN r1
  ELSE AfterSecond(f, r1.v, Get(r1.S, Second(f, r1.v)))

\* An untracked that restores tracking when fn returns, whatever it was.
UntrackedResumes(S, prev) == [S EXCEPT !.isUntracked = FALSE]

\* The finally block of untracked; prev is the saved isUntracked.
UntrackedFinally(S, prev) == [S EXCEPT !.isUntracked = prev]

\* untracked(fn) up to the call of fn.
UntrackedBegin(S) == [S EXCEPT !.isUntracked = TRUE]

\* try { untracked(() => { throw ... }) } catch {}
UntrackedThrows(S) == UntrackedFinally(UntrackedBegin(S), S.isUntracked)

\* A read of the sequence: r is the outcome so far, r2 that of the read.
Seen(r, r2, keep) ==
  IF Threw(r2) \/ ~keep THEN Result(r2.S, r.v) ELSE Result(r2.S, r.v + r2.v)

\* if (x.value < ReentrantCap) x.value = x.value + 1, after the read with
\* outcome r2.
Bump(r, r2, x) ==
  IF Threw(r2) \/ r2.v >= ReentrantCap THEN Seen(r, r2, TRUE)
  ELSE Result(SignalSet(r2.S, x, r2.v + 1), r.v + r2.v)

\* A statement that reads cell st.cell, after the read with outcome r2.
AfterRead(r, st, r2) ==
  CASE st.do = "read"  -> Seen(r, r2, TRUE)
    [] st.do = "touch" -> Seen(r, r2, FALSE)
    [] st.do = "bump"  -> Bump(r, r2, st.cell)

\* One statement of a sequence; prevs holds the isUntracked values saved by
\* the untracked calls that are open.
ExecStatement(r, st, prevs) ==
  CASE st.do = "untracked" -> Result(UntrackedBegin(r.S), r.v)
    [] st.do = "end"       -> Result(UntrackedFinally(r.S, prevs[Len(prevs)]), r.v)
    [] st.do = "caught"    -> Result(UntrackedThrows(r.S), r.v)
    [] st.do = "batch"     -> Result(BatchBegin(r.S), r.v)
    [] st.do = "reset"     -> Result(SignalSet(r.S, st.cell, 0), r.v)
    [] st.do = "endbatch"  -> Result(BatchFinally(r.S), r.v)
    [] st.do = "dispose"   -> Result(IF st.cell \in r.S.created
                                     THEN Disposer(r.S, st.cell) ELSE r.S, r.v)
    [] OTHER               -> AfterRead(r, st, Get(r.S, st.cell))

\* The untracked calls open after statement st.
Opened(r, st, prevs) ==
  CASE st.do = "untracked" -> Append(prevs, r.S.isUntracked)
    [] st.do = "end"       -> SubSeq(prevs, 1, Len(prevs) - 1)
    [] OTHER               -> prevs

\* The statements of a sequence from i on; r.v is the sum read so far.  An
\* exception runs the finally blocks of the open untracked calls, which end
\* with the outermost.
RECURSIVE ExecSeq(_, _, _, _)
ExecSeq(r, body, i, prevs) ==
  IF Threw(r)
  THEN IF prevs = <<>> THEN r ELSE Result(UntrackedFinally(r.S, prevs[1]), r.v)
  ELSE IF i > Len(body) THEN r
  ELSE ExecSeq(ExecStatement(r, body[i], prevs), body, i + 1, Opened(r, body[i], prevs))

\* The function of node n, its statements in source order.
ExecFn(S, n) ==
  IF Fn(n).op = "seq"
  THEN ExecSeq(Result(S, 0), Fn(n).body, 1, <<>>)
  ELSE ExecRest(Fn(n), Get(S, Fn(n).args[1]))

\* History of the function of n, which started in state S with outcome r.
OnTop(S, n, r) ==
  Result([r.S EXCEPT !.offTop = @ \/ Top(S) # n \/ Top(r.S) # n], r.v)

\* safeExecute(fn, context, subscriber) for the function of node n.
Exec(S, n) ==
  SafeExecute(OnTop(S, n, ExecFn(S, n)),
              IF n \in Computeds THEN "computed computation" ELSE "effect execution", n)

\* A recompute whose catch block is not followed by a finally block.
RecomputeEndNoFinally(r, c, prev, val) ==
  IF Threw(r)
  THEN [r.S EXCEPT !.cError[c] = r.S.thrown,
                   !.thrown = NoError,
                   !.dirty[c] = FALSE,
                   !.passes[c] = 0,
                   !.execs[c] = @ + 1,
                   !.lastReads[c] = DirectReads(c, val)]
  ELSE Pop([r.S EXCEPT !.cValue[c] = r.v,
                       !.dirty[c] = FALSE,
                       !.passes[c] = 0,
                       !.cError[c] = NoError,
                       !.execs[c] = @ + 1,
                       !.lastReads[c] = DirectReads(c, val),
                       !.currentSubscriber = prev])

\* recompute, after computeFn has returned or thrown: r is its outcome.
RecomputeEnd(r, c, prev, val) ==
  Pop(IF Threw(r)
      THEN [r.S EXCEPT !.cError[c] = r.S.thrown,
                       !.thrown = NoError,
                       !.dirty[c] = FALSE,
                       !.passes[c] = 0,
                       !.execs[c] = @ + 1,
                       !.lastReads[c] = DirectReads(c, val),
                       !.currentSubscriber = prev]
      ELSE [r.S EXCEPT !.cValue[c] = r.v,
                       !.dirty[c] = FALSE,
                       !.passes[c] = 0,
                       !.cError[c] = NoError,
                       !.execs[c] = @ + 1,
                       !.lastReads[c] = DirectReads(c, val),
                       !.currentSubscriber = prev])

\* recompute, after the teardown.
RecomputeRun(S1, c) ==
  RecomputeEnd(
    Exec([Push(S1, c) EXCEPT !.currentSubscriber =
                               CurrentArrow(c, Cardinality(CurrentArrows(S1, c)) + 1),
                             !.cleanExecs[c] = IF S1.dirty[c] THEN @ ELSE @ + 1], c),
    c, S1.currentSubscriber, S1.value)

\* A recompute that stops at a circular dependency without storing an error.
RecomputeForgiving(S, c) ==
  IF c \in Range(S.subscriberStack)
  THEN [S EXCEPT !.dirty[c] = FALSE, !.passes[c] = 0]
  ELSE RecomputeRun(ClearDependencies(S, c), c)

\* ComputedImpl.recompute.
Recompute(S, c) ==
  IF c \in Range(S.subscriberStack)
  THEN [S EXCEPT !.cError[c] = CircularError, !.dirty[c] = FALSE, !.passes[c] = 0]
  ELSE RecomputeRun(ClearDependencies(S, c), c)

\* this.subscribers.add(currentSubscriber) of the computed getter.
AddCurrentSubscriber(S, c) ==
  IF S.currentSubscriber # NoFn /\ ~S.isBatching /\ ~S.isAsyncBatching
  THEN [S EXCEPT !.subscribers[c] = SetAdd(@, S.currentSubscriber)]
  ELSE S

\* A getter that returns the cached value whether or not an error is cached.
ComputedReturnValue(S, c) == Result(S, S.cValue[c])

\* The end of the computed getter: throw the cached error or return the value.
ComputedReturn(S, c) ==
  IF S.cError[c] # NoError THEN Throw(S, S.cError[c]) ELSE Result(S, S.cValue[c])

\* The computed getter after its dirty check.
ComputedRead(S, c) ==
  IF Top(S) # Null /\ Top(S) # c /\ ~S.isUntracked
  THEN ComputedReturn(AddCurrentSubscriber(OnDependencySubscribe(S, Top(S), c), c), c)
  ELSE ComputedReturn(S, c)

\* get value of a computed.
ComputedGet(S, c) ==
  IF TooDeep(S) THEN Throw(S, ReentrantError)
  ELSE ComputedRead(IF S.dirty[c] THEN Recompute(S, c) ELSE S, c)

Get(S, cell) == IF cell \in Signals THEN SignalGet(S, cell) ELSE ComputedGet(S, cell)

\* ------------------------------------------------------------- effects
\* What a flushed effect finds stale when its function starts in state S and
\* reads v.
Stale(S, e, v) ==
  IF S.isFlushingEffects
  THEN {c \in Computeds : S.dirty[c] /\ S.cValue[c] # Undefined}
       \cup (IF v # Den(e, S.value) THEN {e} ELSE {})
  ELSE {}

maxErrorRetries == 3

\* run(), after fn has returned or thrown: r is its outcome and S the state
\* in which fn started.  A thrown error stays in flight.
RunEnd(S, r, e) ==
  Pop(IF Threw(r)
      THEN [r.S EXCEPT !.currentSubscriber = S.currentSubscriber,
                       !.errorCount[e] = @ + 1,
                       !.isDisposed[e] = IF r.S.errorCount[e] + 1 > maxErrorRetries
                                         THEN TRUE ELSE @,
                       !.runs[e] = @ + 1,
                       !.ranOrder = Append(@, e),
                       !.lastReads[e] = DirectReads(e, S.value),
                       !.startedInBatch = IF S.isBatching \/ S.isAsyncBatching
                                          THEN @ \cup {e} ELSE @]
      ELSE [r.S EXCEPT !.currentSubscriber = S.currentSubscriber,
                       !.cleanup[e] = IF ReturnsCleanup(e) THEN TRUE ELSE @,
                       !.errorCount[e] = 0,
                       !.observed[e] = r.v,
                       !.runs[e] = @ + 1,
                       !.ranOrder = Append(@, e),
                       !.lastReads[e] = DirectReads(e, S.value),
                       !.startedInBatch = IF S.isBatching \/ S.isAsyncBatching
                                          THEN @ \cup {e} ELSE @,
                       !.staleAtStart = @ \cup Stale(S, e, r.v)])

\* if (cleanup) cleanup(): the cleanup stored by an earlier run.
CallCleanup(S, e) ==
  IF ~S.cleanup[e] THEN S
  ELSE IF ThrowingCleanup(e)
  THEN [S EXCEPT !.cleanups[e] = @ + 1,
                 !.cleanupRuns = IF @ < 2 THEN @ + 1 ELSE @,
                 !.thrown = IF S.cleanupRuns = 0 THEN CleanupError ELSE @]
  ELSE [S EXCEPT !.cleanups[e] = @ + 1]

\* The catch block around the cleanup call: handleError, then the error is
\* thrown again.
CleanupCaught(S, e, context) == HandleError(S, context, e)

\* run(), after its cleanup call: teardown, push, fn, pop.
RunFn(S, e) ==
  RunEnd(S, Exec([Push(ClearDependencies(S, e), e)
                    EXCEPT !.currentSubscriber = Runner(e),
                           !.skewed = @ \/ S.isReentrant # S.isFlushingEffects,
                           !.atDisposed[e] = IF S.isDisposed[e] THEN "executed" ELSE @],
                 e), e)

\* run() that executes fn after a cleanup that threw.
RunRegardless(S, e) == RunFn(Swallow(S), e)

\* run(), once its cleanup call has returned or thrown.
RunCleaned(S, e) ==
  IF S.thrown # NoError THEN CleanupCaught(S, e, "effect cleanup") ELSE RunFn(S, e)

\* run(), after its guards.
RunBody(S, e) ==
  IF TooDeep(S) THEN [S EXCEPT !.thrown = ReentrantError]
  ELSE RunCleaned(CallCleanup(S, e), e)

\* The disposer after its cleanup call.
DisposerEnd(S, e) ==
  IF S.thrown # NoError THEN CleanupCaught(S, e, "effect disposal")
  ELSE ClearDependencies(S, e)

\* The function createEffect returns.
Disposer(S, e) ==
  DisposerEnd(CallCleanup([S EXCEPT !.isDisposed[e] = TRUE], e), e)

\* if (isDisposed) return;
Returns(S, e) == [S EXCEPT !.atDisposed[e] = "returned"]

\* run() without its check of the batching flags.
RunWhileBatching(S, e) ==
  IF S.isDisposed[e] THEN Returns(S, e) ELSE RunBody(S, e)

\* run() without its check of isDisposed.
RunDisposed(S, e) ==
  IF S.isBatching \/ S.isAsyncBatching THEN S ELSE RunBody(S, e)

\* run() of createEffect.
Run(S, e) ==
  IF S.isDisposed[e] THEN Returns(S, e)
  ELSE IF S.isBatching \/ S.isAsyncBatching THEN S
  ELSE RunBody(S, e)

\* ------------------------------------------------------------- writes
RECURSIVE NotifySubscribers(_, _, _, _)

\* isComputedNotify: the function's text contains "this.notify()".
IsComputedNotify(fn) == fn.kind \in {"notify", "current"}

\* The body of notify(): the flag, the error, dirtyComputeds, the listener pass.
NotifyClean(S, c) ==
  NotifySubscribers([S EXCEPT !.dirty[c] = TRUE,
                              !.cError[c] = NoError,
                              !.dirtyComputeds = SetAdd(@, c),
                              !.passes[c] = IF @ < 2 THEN @ + 1 ELSE @],
                    c, S.subscribers[c], 1)

\* A notify without the test of _dirty.
NotifyAlways(S, c) == NotifyClean(S, c)

\* if (!this._dirty) { ... }
NotifyIfClean(S, c) == IF S.dirty[c] THEN S ELSE NotifyClean(S, c)

\* History of a notify() that found c dirty in S and left T.
FoundDirty(S, c, T) ==
  IF S.dirty[c]
  THEN [T EXCEPT !.dirtyNotifyChanged = @ \/ T # S,
                 !.dirtyNotifies[c] = IF @ < 2 THEN @ + 1 ELSE @]
  ELSE T

\* ComputedImpl.notify.
ComputedNotify(S, c) == FoundDirty(S, c, NotifyIfClean(S, c))

\* The callbacks of the client: f and g count their calls,
\* t is () => { callbackRuns++; if (callbackRuns === 1) throw new Error(...) }
CallCallback(S, f) ==
  IF f = "t"
  THEN [S EXCEPT !.called[f] = @ + 1,
                 !.callbackRuns = IF @ < 2 THEN @ + 1 ELSE @,
                 !.thrown = IF S.callbackRuns = 0 THEN SubscriptionError ELSE @]
  ELSE [S EXCEPT !.called[f] = @ + 1]

\* Calling a listener function: an effect's runner or a computed's arrow.
CallFn(S, fn) ==
  CASE fn.kind = "runner"   -> Run(S, fn.id)
    [] fn.kind = "listener" -> CallCallback(S, fn.id)
    [] OTHER                -> ComputedNotify(S, fn.id)

\* A catch block that reports the error and does not throw it again.
CaughtForGood(S, owner) ==
  IF S.thrown # NoError
  THEN Swallow(HandleError(S, IF owner \in Signals THEN "signal setter"
                                                    ELSE "computed notification", owner))
  ELSE S

\* The catch block around a listener call in the pass of cell `owner`:
\* handleError, then the error is thrown again.
Caught(S, owner) ==
  IF S.thrown # NoError
  THEN HandleError(S, IF owner \in Signals THEN "signal setter"
                                            ELSE "computed notification", owner)
  ELSE S

\* A listener pass that queues an effect once per notification.
NotifyOneDuplicating(S, owner, fn) ==
  IF (S.isBatching \/ S.isAsyncBatching) /\ ~S.isFlushingEffects
  THEN IF IsComputedNotify(fn)
       THEN Caught(CallFn(S, fn), owner)
       ELSE [S EXCEPT !.pendingEffects = Append(@, fn)]
  ELSE IF ~S.isBatching /\ ~S.isAsyncBatching
       THEN Caught(CallFn(S, fn), owner)
       ELSE S

\* A listener pass that moves an effect already queued to the end of the queue.
NotifyOneMoving(S, owner, fn) ==
  IF (S.isBatching \/ S.isAsyncBatching) /\ ~S.isFlushingEffects
  THEN IF IsComputedNotify(fn)
       THEN Caught(CallFn(S, fn), owner)
       ELSE [S EXCEPT !.pendingEffects = Append(SetDelete(@, fn), fn),
                      !.firstQueued = SetAdd(@, fn)]
  ELSE IF ~S.isBatching /\ ~S.isAsyncBatching
       THEN Caught(CallFn(S, fn), owner)
       ELSE S

\* One listener of the pass of the signal setter and of ComputedImpl.notify.
\* No listener function carries a notify property, so the first branch of the
\* source is never taken and every listener is "an effect" to isEffect.
NotifyOne(S, owner, fn) ==
  IF (S.isBatching \/ S.isAsyncBatching) /\ ~S.isFlushingEffects
  THEN IF IsComputedNotify(fn)
       THEN Caught(CallFn(S, fn), owner)
       ELSE [S EXCEPT !.pendingEffects = SetAdd(@, fn),
                      !.firstQueued = SetAdd(@, fn)]
  ELSE IF ~S.isBatching /\ ~S.isAsyncBatching
       THEN Caught(CallFn(S, fn), owner)
       ELSE S

\* The listener pass of cell `owner` over the snapshot subs; a listener that
\* throws ends the pass.
NotifySubscribers(S, owner, subs, i) ==
  IF i > Len(subs) \/ S.thrown # NoError THEN S
  ELSE NotifySubscribers(NotifyOne(S, owner, subs[i]), owner, subs, i + 1)

\* A setter without the comparison with the current value.
SignalSetAlways(S, s, v) ==
  NotifySubscribers([S EXCEPT !.value[s] = v], s, S.subscribers[s], 1)

\* set value of a signal.
SignalSet(S, s, v) ==
  IF S.value[s] # v
  THEN NotifySubscribers([S EXCEPT !.value[s] = v,
                                   !.written = IF S.hist.phase = "open" /\ S.hist.pure
                                               THEN @ \cup {s} ELSE @],
                         s, S.subscribers[s], 1)
  ELSE S

\* A subscribe that adds fn without looking for it.
SubscribeAgain(S, s, f) ==
  [S EXCEPT !.subscribers[s] = Append(@, Callback(f)),
            !.held = @ \cup {[cell |-> s, fn |-> f]}]

\* SignalImpl.subscribe: the client keeps the closure it returns.
SignalSubscribe(S, s, f) ==
  [S EXCEPT !.subscribers[s] = SetAdd(@, Callback(f)),
            !.held = @ \cup {[cell |-> s, fn |-> f]}]

\* The closure subscribe(fn) returned.
Unsubscriber(S, s, f) == [S EXCEPT !.subscribers[s] = SetDelete(@, Callback(f))]

\* ------------------------------------------------------------- scheduler
RECURSIVE RecomputeAll(_, _)
RecomputeAll(S, i) ==
  IF i > Len(S.dirtyComputeds) THEN S
  ELSE RecomputeAll(Recompute(S, S.dirtyComputeds[i]), i + 1)

\* A flush that forgets the dirty computeds instead of recomputing them.
ForgetDirty(S) == [S EXCEPT !.dirtyComputeds = <<>>]

\* for (const c of dirtyComputeds) c.recompute(); dirtyComputeds.clear();
RecomputeDirty(S) == [RecomputeAll(S, 1) EXCEPT !.dirtyComputeds = <<>>]

RECURSIVE RunEffects(_, _, _)
RunEffects(S, effects, i) ==
  IF i > Len(effects) THEN S
  ELSE RunEffects(Swallow(CallFn(S, effects[i])), effects, i + 1)

\* The finally blocks of the drain.
DrainEnd(S) ==
  [S EXCEPT !.isFlushingEffects = FALSE,
            !.reentrantDepth = @ - 1,
            !.isReentrant = IF S.reentrantDepth - 1 = 0 THEN FALSE ELSE @]

\* The drain from isReentrant = true on.
DrainRun(S) ==
  DrainEnd(RunEffects([S EXCEPT !.isReentrant = TRUE,
                                !.reentrantDepth = @ + 1,
                                !.deepestFlush = IF S.reentrantDepth + 1 > @
                                                 THEN S.reentrantDepth + 1 ELSE @,
                                !.pendingEffects = <<>>,
                                !.firstQueued = <<>>,
                                !.isFlushingEffects = TRUE],
                      S.pendingEffects, 1))

\* A drain without the test of isReentrant.
DrainNested(S) == DrainRun(S)

\* The drain both flush functions perform after their recompute loop;
\* pendingSubscribers and pendingAsyncSubscribers are never added to, so
\* their loops call nothing.
Drain(S) == IF S.isReentrant THEN S ELSE DrainRun(S)

\* History of a flush requested in state S, where isReentrant was set, that
\* left T.
Nested(S, T) ==
  IF S.isReentrant
  THEN [T EXCEPT !.nestedFlushRan = @ \/ T.runs # S.runs \/ T.dirtyComputeds # <<>>
                                     \/ \E c \in Range(S.dirtyComputeds) : T.dirty[c],
                 !.nestedFlushes = IF @ < 2 THEN @ + 1 ELSE @]
  ELSE T

FlushSubscribers(S) == Nested(S, Drain(RecomputeDirty(S)))

FlushAsyncSubscribers(S) == Nested(S, Drain(RecomputeDirty(S)))

\* A scheduleFlush that enqueues a callback at every call.
ScheduleFlushAlways(S) ==
  [S EXCEPT !.flushScheduled = TRUE, !.microtasks = @ + 1]

ScheduleFlush(S) ==
  IF ~S.flushScheduled
  THEN [S EXCEPT !.flushScheduled = TRUE, !.microtasks = @ + 1]
  ELSE [S EXCEPT !.coalesced = TRUE]

\* The callback scheduleFlush hands to queueMicrotask.
FlushCallback(S) ==
  FlushAsyncSubscribers([S EXCEPT !.flushScheduled = FALSE, !.coalesced = FALSE])

Flush(S) ==
  IF S.isAsyncBatching THEN ScheduleFlush(S)
  ELSE FlushAsyncSubscribers(FlushSubscribers(S))

\* batch(fn) up to the call of fn.
BatchBegin(S) ==
  [S EXCEPT !.stack = Append(@, [kind |-> "batch", prev |-> S.isBatching]),
            !.isBatching = TRUE]

\* A batch that flushes at every exit, the nested ones included.
BatchFlushAlways(S) == FlushSubscribers(S)

\* The end of batch's finally block.
BatchFlush(S) == IF ~S.isBatching THEN FlushSubscribers(S) ELSE S

\* The finally block of batch.
BatchFinally(S) ==
  BatchFlush(RecomputeDirty([S EXCEPT !.isBatching = S.stack[Len(S.stack)].prev,
                                      !.stack = SubSeq(@, 1, Len(@) - 1)]))

\* asyncBatch(fn) up to the call of fn.
AsyncBatchBegin(S) ==
  [S EXCEPT !.stack = Append(@, [kind |-> "asyncBatch", prev |-> S.isAsyncBatching]),
            !.isAsyncBatching = TRUE,
            !.asyncBatchingDepth = @ + 1]

\* An asyncBatch that flushes at its exit instead of deferring.
AsyncBatchFlushNow(S) == IF ~S.isAsyncBatching THEN FlushAsyncSubscribers(S) ELSE S

\* The end of asyncBatch's finally block at depth 0.
AsyncBatchSchedule(S) == IF ~S.isAsyncBatching THEN ScheduleFlush(S) ELSE S

\* An asyncBatch that ignores asyncBatchingDepth and schedules at every exit.
AsyncBatchEndAtEveryExit(S, prev) ==
  ScheduleFlush([S EXCEPT !.isAsyncBatching = FALSE])

\* The end of asyncBatch's finally block; prev is the saved prevAsyncBatching.
AsyncBatchEnd(S, prev) ==
  IF S.asyncBatchingDepth = 0
  THEN AsyncBatchSchedule([S EXCEPT !.isAsyncBatching = prev])
  ELSE S

\* The finally block of asyncBatch.
AsyncBatchFinally(S) ==
  AsyncBatchEnd(RecomputeDirty([S EXCEPT !.asyncBatchingDepth = @ - 1,
                                         !.stack = SubSeq(@, 1, Len(@) - 1)]),
                S.stack[Len(S.stack)].prev)

\* A computed setter that stores the assigned value.
ComputedSetStores(S, c, v) == Result([S EXCEPT !.cValue[c] = v, !.dirty[c] = FALSE], v)

\* set value of a computed.
ComputedSet(S, c, v) == Throw(S, ReadOnlyError)

\* An exception that leaves fn without running the finally block.
ThrowOutBare(S) == [S EXCEPT !.stack = SubSeq(@, 1, Len(@) - 1)]

\* An exception leaves fn of the innermost open batch or asyncBatch:
\* safeExecute reports it, the finally block runs, and it is thrown on.
ThrowOut(S) ==
  [(IF S.stack[Len(S.stack)].kind = "batch"
    THEN BatchFinally(Swallow(HandleError(S, "batch execution", Null)))
    ELSE AsyncBatchFinally(Swallow(HandleError(S, "async batch execution", Null))))
   EXCEPT !.thrown = S.thrown]

\* An exception of a statement propagates through every open scope.
RECURSIVE Unwind(_)
Unwind(S) ==
  IF S.thrown = NoError \/ S.stack = <<>> THEN S ELSE Unwind(ThrowOut(S))

\* ------------------------------------------------------------- program start
Blank ==
  [value |-> [s \in Signals |-> IF s = "c" THEN TRUE ELSE IF s = "b" THEN 1 ELSE 0],
   subscribers |-> [x \in Cells |-> <<>>],
   cValue |-> [c \in Computeds |-> Undefined],
   dirty |-> [c \in Computeds |-> TRUE],
   dependencies |-> [n \in Nodes |-> {}],
   unsubscribeFns |-> [n \in Nodes |-> <<>>],
   isDisposed |-> [e \in Effects |-> FALSE],
   currentSubscriber |-> NoFn, subscriberStack |-> <<>>, isUntracked |-> FALSE,
   isBatching |-> FALSE, isAsyncBatching |-> FALSE, asyncBatchingDepth |-> 0,
   flushScheduled |-> FALSE, isReentrant |-> FALSE, reentrantDepth |-> 0,
   isFlushingEffects |-> FALSE, dirtyComputeds |-> <<>>, pendingEffects |-> <<>>,
   microtasks |-> 0, stack |-> <<>>, created |-> {},
   client |-> Quiet,
   observed |-> [e \in Effects |-> Undefined],
   runs |-> [e \in Effects |-> 0],
   lastReads |-> [n \in Nodes |-> {}],
   written |-> {},
   hist |-> [phase |-> "idle", pure |-> TRUE, nested |-> FALSE],
   startedInBatch |-> {}, staleAtStart |-> {}, coalesced |-> FALSE, deepest |-> 0,
   held |-> {}, called |-> [f \in Listeners |-> 0],
   cleanExecs |-> [c \in Computeds |-> 0],
   skewed |-> FALSE,
   nestedFlushRan |-> FALSE,
   nestedFlushes |-> 0,
   deepestFlush |-> 0,
   offTop |-> FALSE,
   bornInBatch |-> {},
   dirtyNotifyChanged |-> FALSE,
   dirtyNotifies |-> [c \in Computeds |-> 0],
   passes |-> [c \in Computeds |-> 0],
   cleanupRuns |-> 0,
   callbackRuns |-> 0,
   atDisposed |-> [e \in Effects |-> "none"],
   firstQueued |-> <<>>,
   ranOrder |-> <<>>,
   cError |-> [c \in Computeds |-> NoError],
   errorCount |-> [e \in Effects |-> 0],
   cleanup |-> [e \in Effects |-> FALSE],
   isInErrorState |-> FALSE, thrown |-> NoError, reported |-> <<>>,
   cleanups |-> [e \in Effects |-> 0],
   execs |-> [c \in Computeds |-> 0],
   failed |-> {}]

\* An effect(fn) that calls fn whatever the batching flags are.
CreateEffectAnyway(S, e) == RunWhileBatching([S EXCEPT !.created = @ \cup {e}], e)

\* effect(fn): createEffect with runImmediately, which calls run() once.
CreateEffect(S, e) == Run([S EXCEPT !.created = @ \cup {e}], e)

RECURSIVE CreateEffects(_, _, _)
CreateEffects(S, es, i) ==
  IF i > Len(es) THEN S ELSE CreateEffects(CreateEffect(S, es[i]), es, i + 1)

\* The state once the program has built its graph.
Constructed(sc) ==
  [CreateEffects([Blank EXCEPT !.client = sc], sc.effects, 1)
     EXCEPT !.runs = [e \in Effects |-> 0], !.deepest = 0]

InitFrom(S) ==
  /\ value = S.value /\ subscribers = S.subscribers /\ cValue = S.cValue
  /\ dirty = S.dirty /\ dependencies = S.dependencies
  /\ unsubscribeFns = S.unsubscribeFns /\ isDisposed = S.isDisposed
  /\ currentSubscriber = S.currentSubscriber /\ subscriberStack = S.subscriberStack
  /\ isUntracked = S.isUntracked /\ isBatching = S.isBatching
  /\ isAsyncBatching = S.isAsyncBatching /\ asyncBatchingDepth = S.asyncBatchingDepth
  /\ flushScheduled = S.flushScheduled /\ isReentrant = S.isReentrant
  /\ reentrantDepth = S.reentrantDepth /\ isFlushingEffects = S.isFlushingEffects
  /\ dirtyComputeds = S.dirtyComputeds /\ pendingEffects = S.pendingEffects
  /\ microtasks = S.microtasks /\ stack = S.stack /\ created = S.created
  /\ client = S.client
  /\ observed = S.observed /\ runs = S.runs
  /\ lastReads = S.lastReads /\ written = S.written /\ hist = S.hist
  /\ startedInBatch = S.startedInBatch /\ staleAtStart = S.staleAtStart
  /\ held = S.held /\ called = S.called /\ cleanExecs = S.cleanExecs
  /\ skewed = S.skewed
  /\ nestedFlushRan = S.nestedFlushRan
  /\ nestedFlushes = S.nestedFlushes
  /\ deepestFlush = S.deepestFlush
  /\ offTop = S.offTop
  /\ bornInBatch = S.bornInBatch
  /\ dirtyNotifyChanged = S.dirtyNotifyChanged
  /\ dirtyNotifies = S.dirtyNotifies
  /\ passes = S.passes
  /\ cleanupRuns = S.cleanupRuns
  /\ callbackRuns = S.callbackRuns
  /\ atDisposed = S.atDisposed
  /\ firstQueued = S.firstQueued
  /\ ranOrder = S.ranOrder
  /\ coalesced = S.coalesced /\ deepest = S.deepest /\ cError = S.cError /\ errorCount = S.errorCount
  /\ cleanup = S.cleanup /\ isInErrorState = S.isInErrorState /\ thrown = S.thrown
  /\ reported = S.reported /\ cleanups = S.cleanups /\ execs = S.execs
  /\ failed = S.failed

Init == \E sc \in Scenarios : InitFrom(Constructed(sc))

\* ------------------------------------------------------------- history
Idle == [phase |-> "idle", pure |-> TRUE, nested |-> FALSE]

NoRuns == [e \in Effects |-> 0]

\* Every statement starts a new count of runs; a statement issued at top
\* level starts a new observation window.
Fresh(S) ==
  [S EXCEPT !.runs = NoRuns,
            !.deepest = 0,
            !.called = [f \in Listeners |-> 0],
            !.cleanExecs = [c \in Computeds |-> 0],
            !.nestedFlushes = 0,
            !.deepestFlush = 0,
            !.dirtyNotifies = [c \in Computeds |-> 0],
            !.atDisposed = [e \in Effects |-> "none"],
            !.ranOrder = <<>>,
            !.thrown = NoError,
            !.reported = <<>>,
            !.cleanups = [e \in Effects |-> 0],
            !.execs = [c \in Computeds |-> 0],
            !.failed = {}]

Begin(S) ==
  IF S.stack = <<>>
  THEN [Fresh(S) EXCEPT !.written = {}, !.hist = Idle]
  ELSE Fresh(S)

\* A scope in which something other than a write or a nested scope of the
\* same kind has happened.
Mixed == [phase |-> "open", pure |-> FALSE, nested |-> FALSE]

Impure(S) == IF S.stack = <<>> THEN S ELSE [S EXCEPT !.hist = Mixed, !.written = {}]

Enter(S, kind) ==
  IF S.stack = <<>> THEN [S EXCEPT !.hist.phase = "open"]
  ELSE IF S.stack[1].kind = kind /\ S.hist.pure THEN [S EXCEPT !.hist.nested = TRUE]
  ELSE Impure(S)

Returned(S, phase) ==
  IF S.stack # <<>> THEN S
  ELSE IF S.hist.pure THEN [S EXCEPT !.hist.phase = phase]
  ELSE [S EXCEPT !.hist = Idle]

\* The arrows recompute leaves behind are never removed; the model stops
\* before more than MaxLeak of them exist.
Within(S) == TotalCurrentArrows(S) <= MaxLeak

\* ------------------------------------------------------------- actions
Commit(S) == Within(S) /\ Install(S)

\* A write issued at top level is remembered until the next statement.
Noted(S, s, same) ==
  IF S.stack # <<>> THEN S
  ELSE IF same THEN [S EXCEPT !.hist.phase = "same"]
  ELSE [S EXCEPT !.hist.phase = "set", !.written = {s}]

\* s.value = v, as a statement of the client.
Write(s, v) ==
  /\ s \in client.writes
  /\ v \in ValOf(s)
  /\ client.plain \/ stack # <<>>
  /\ Commit(Noted(SignalSet(Begin(St), s, v), s, v = value[s]))

\* c.value read by the client.
ReadComputed(c) ==
  /\ c \in client.reads
  /\ Commit(Returned(Unwind(ComputedGet(Impure(Begin(St)), c).S), "idle"))

\* c.value = v, as a statement of the client.
WriteComputed(c, v) ==
  /\ c \in client.assigns
  /\ Commit(Returned(Unwind(ComputedSet(Impure(Begin(St)), c, v).S), "idle"))

\* History of an effect(fn) called while a scope of the client is open.
Born(S, e) == IF S.stack # <<>> THEN [S EXCEPT !.bornInBatch = @ \cup {e}] ELSE S

\* effect(fn), as a statement of the client. While a scope is open run()
\* returns before it calls fn, and outside every scope an exception of fn has
\* no scope to leave.
Create(e) ==
  /\ e \in client.creates
  /\ e \notin created
  /\ Commit(Returned(Born(CreateEffect(Impure(Begin(St)), e), e), "idle"))

\* dispose(), the function effect(fn) returned for e.
Dispose(e) ==
  /\ client.disposes
  /\ e \in created
  /\ Commit(Returned(Unwind(Disposer(Impure(Begin(St)), e)), "idle"))

\* s.subscribe(f)
Subscribe(s, f) ==
  /\ s \in client.subscribes
  /\ f \in client.callbacks
  /\ Commit(SignalSubscribe(Impure(Begin(St)), s, f))

\* unsubscribe(), a closure s.subscribe(f) returned.
Unsubscribe(s, f) ==
  /\ [cell |-> s, fn |-> f] \in held
  /\ Commit(Unsubscriber(Impure(Begin(St)), s, f))

BatchEnter ==
  /\ client.scoped
  /\ Len(stack) < MaxDepth
  /\ Commit(BatchBegin(Enter(Begin(St), "batch")))

BatchExit ==
  /\ stack # <<>>
  /\ stack[Len(stack)].kind = "batch"
  /\ Commit(Returned(BatchFinally(Begin(St)), "batchReturned"))

AsyncBatchEnter ==
  /\ client.scoped
  /\ Len(stack) < MaxDepth
  /\ Commit(AsyncBatchBegin(Enter(Begin(St), "asyncBatch")))

AsyncBatchExit ==
  /\ stack # <<>>
  /\ stack[Len(stack)].kind = "asyncBatch"
  /\ Commit(Returned(AsyncBatchFinally(Begin(St)), "asyncReturned"))

\* flush(), as a statement of the client.
FlushCall ==
  /\ client.flushes
  /\ Commit(Flush(Impure(Begin(St))))

\* The host runs the deferred callback once the running statement has returned.
Microtask ==
  /\ stack = <<>>
  /\ microtasks > 0
  /\ Commit(FlushCallback([Begin(St) EXCEPT !.microtasks = @ - 1]))

Next ==
  \/ \E s \in Signals : \E v \in ValOf(s) : Write(s, v)
  \/ \E c \in Computeds : ReadComputed(c)
  \/ \E c \in Computeds : \E v \in Val : WriteComputed(c, v)
  \/ \E e \in Effects : Create(e)
  \/ \E e \in Effects : Dispose(e)
  \/ \E s \in Signals : \E f \in Listeners : Subscribe(s, f)
  \/ \E s \in Signals : \E f \in Listeners : Unsubscribe(s, f)
  \/ BatchEnter
  \/ BatchExit
  \/ AsyncBatchEnter
  \/ AsyncBatchExit
  \/ FlushCall
  \/ Microtask

Spec == Init /\ [][Next]_vars

\* ------------------------------------------------------------- properties
\* Node n's latest run read signal s, directly or through computeds.
RECURSIVE DependsOn(_, _)
DependsOn(n, s) ==
  \E x \in lastReads[n] : x = s \/ (x \in Computeds /\ DependsOn(x, s))

Live(e) == e \in created /\ ~isDisposed[e]

Queued(e, pending) == Runner(e) \in Range(pending)

\* The live effects that depend on a signal changed in the current scope.
Affected(e) == Live(e) /\ \E s \in written : DependsOn(e, s)

\* An affected effect that is not disposed in the step, as it is when an
\* effect run earlier in the same flush calls its disposer.
Rerun(e) == Affected(e) /\ ~isDisposed'[e]

\* The step is the statement s.value = v.  (A write opens and closes no
\* scope; the first conjunct is decided without running the setter.)
Wrote(s, v) == stack' = stack /\ Write(s, v)

\* The step is the statement s.value = v and it changes the value of s.
Changes(s, v) == v # value[s] /\ value'[s] = v /\ Wrote(s, v)

AllOfKind(kind) == \A i \in DOMAIN stack : stack[i].kind = kind

\* A scope of the given kind, opened at top level, in which only writes and
\* nested scopes of that kind have happened so far.
PureScope(kind) == stack # <<>> /\ hist.phase = "open" /\ hist.pure /\ AllOfKind(kind)

\* The run of effect e in this step has stored the value its function denotes
\* on the signal values the step leaves, unless the function threw.
Observes(e) == e \in failed' \/ observed'[e] = Den(e, value')

\* C1: writing to a signal the value it already holds calls no listener: no
\* effect runs or is queued, no computed is marked dirty, and the value,
\* pendingEffects, dirtyComputeds and the deferred flush stay as they were,
\* whatever scopes are open.
IdentityShortCircuit ==
  [][\A s \in Signals :
       (value'[s] = value[s] /\ Wrote(s, value[s])) =>
         /\ runs' = NoRuns
         /\ UNCHANGED <<value, subscribers, cValue, dirty, dependencies, unsubscribeFns,
                        pendingEffects, dirtyComputeds, observed, flushScheduled,
                        microtasks, isBatching, isAsyncBatching>>]_vars

\* A write of the held value was issued with a flush deferred and effects queued.
IdentityWriteSeen ==
  /\ hist.phase = "same"
  /\ flushScheduled
  /\ pendingEffects # <<>>

\* C2: with no batch open, when a value-changing write to a signal returns
\* without an exception, every live effect whose latest run read the signal,
\* directly or through computeds, has run again and has observed the value
\* its function denotes on the current signal values.
Propagation ==
  [][\A s \in Signals : \A v \in ValOf(s) :
       (stack = <<>> /\ thrown' = NoError /\ Changes(s, v)) =>
         \A e \in Effects :
           (Live(e) /\ DependsOn(e, s)) =>
             runs'[e] >= 1 /\ observed'[e] = Den(e, value')]_vars

\* A write to a reached the effect behind the chain of two computeds.
PropagatedThroughChain ==
  /\ hist.phase = "set"
  /\ written = {"a"}
  /\ "eFin" \in created
  /\ runs["eFin"] >= 1
  /\ observed["eFin"] = Den("eFin", value)

\* C3: a value-changing write to a signal that the latest run of a
\* conditional effect, or of the conditional computed it reads, did not read
\* neither runs nor queues the effect, leaves its observed value alone and
\* does not mark the computed dirty; with no batch open a write to a signal
\* the latest run did read runs the effect again.
DependencyPruning ==
  [][\A s \in Signals : \A v \in ValOf(s) :
       Changes(s, v) =>
         /\ \A e \in {"eCond", "eDyn"} :
              Live(e) =>
                /\ ~DependsOn(e, s) =>
                     /\ runs'[e] = 0
                     /\ observed'[e] = observed[e]
                     /\ Queued(e, pendingEffects') => Queued(e, pendingEffects)
                /\ (DependsOn(e, s) /\ stack = <<>>) =>
                     runs'[e] >= 1 /\ observed'[e] = Den(e, value')
         /\ (cValue["dyn"] # Undefined /\ ~DependsOn("dyn", s)) =>
              dirty'["dyn"] = dirty["dyn"] /\ cValue'["dyn"] = cValue["dyn"]]_vars

\* After c became falsy, a write to a left the conditional effect alone.
PrunedBranchWritten ==
  /\ hist.phase = "set"
  /\ written = {"a"}
  /\ value["c"] = FALSE
  /\ "eCond" \in created
  /\ runs["eCond"] = 0
  /\ observed["eCond"] = value["b"]

\* C4: in a batch called with no scope open whose function only writes, no
\* effect runs before the function has finished, and when batch returns
\* every affected effect still live has run exactly once and, unless its
\* function threw, has observed the value its function denotes on the final
\* signal values.
BatchCoalescing ==
  [][/\ (PureScope("batch") /\ ~hist.nested /\ stack' # <<>>) => runs' = NoRuns
     /\ (PureScope("batch") /\ ~hist.nested /\ BatchExit) =>
          \A e \in Effects :
            Rerun(e) => runs'[e] = 1 /\ Observes(e)]_vars

\* A flat batch wrote two signals the effect read and returned after one run.
CoalescedBatchReturned ==
  /\ hist.phase = "batchReturned"
  /\ ~hist.nested
  /\ written = {"a", "c"}
  /\ "eCond" \in created
  /\ runs["eCond"] = 1
  /\ observed["eCond"] = Den("eCond", value)

NestedBatchCollapse ==
  [][(PureScope("batch") /\ BatchExit) =>
       IF Len(stack) > 1
       THEN runs' = NoRuns /\ pendingEffects' = pendingEffects /\ isBatching'
       ELSE \A e \in Effects :
              Rerun(e) => runs'[e] = 1 /\ ~Queued(e, pendingEffects')]_vars

\* A batch that had a batch nested in it returned and an effect ran once.
NestedBatchReturned ==
  /\ hist.phase = "batchReturned"
  /\ hist.nested
  /\ written # {}
  /\ \E e \in created : runs[e] = 1 /\ observed[e] = Den(e, value)

\* C7: when asyncBatches are nested and their functions only write, no
\* return runs an effect; the return of an inner asyncBatch leaves
\* flushScheduled, the host queue and pendingEffects as they are; the return
\* of the outermost one leaves exactly one callback scheduled; and that
\* callback runs every affected effect still live exactly once.
NestedAsyncBatchCollapse ==
  [][/\ (PureScope("asyncBatch") /\ AsyncBatchExit) =>
          /\ runs' = NoRuns
          /\ pendingEffects' = pendingEffects
          /\ IF Len(stack) > 1
             THEN isAsyncBatching' /\ UNCHANGED <<flushScheduled, microtasks>>
             ELSE ~isAsyncBatching' /\ flushScheduled' /\ microtasks' = 1
     /\ (hist.phase = "asyncReturned" /\ hist.nested /\ Microtask) =>
          \A e \in Effects :
            Rerun(e) => runs'[e] = 1 /\ Observes(e)]_vars

\* Nested asyncBatches have returned; the effect they queued waits for the callback.
NestedAsyncBatchReturned ==
  /\ hist.phase = "asyncReturned"
  /\ hist.nested
  /\ flushScheduled
  /\ \E e \in created : Affected(e) /\ Queued(e, pendingEffects)

AsyncBatchDeferral ==
  [][/\ (PureScope("asyncBatch") /\ ~hist.nested) => runs' = NoRuns
     /\ \A s \in Signals : \A v \in ValOf(s) :
          (PureScope("asyncBatch") /\ ~hist.nested /\ Wrote(s, v)) => value'[s] = v
     /\ (PureScope("asyncBatch") /\ ~hist.nested /\ AsyncBatchExit) =>
          /\ value' = value
          /\ \A c \in Computeds :
               (cValue[c] # Undefined /\ (\E s \in written : DependsOn(c, s))
                /\ ~Threw(ComputedGet(St', c))) =>
                 ComputedGet(St', c).v = Den(c, value')
          /\ \A e \in Effects : Affected(e) => Queued(e, pendingEffects')
     /\ (hist.phase = "asyncReturned" /\ ~hist.nested /\ Microtask) =>
          \A e \in Effects :
            Rerun(e) => runs'[e] = 1 /\ Observes(e)]_vars

\* An asyncBatch has returned: sum reads with the new value of a while the
\* effect still holds what it observed before.
DeferredAfterReturn ==
  /\ hist.phase = "asyncReturned"
  /\ ~hist.nested
  /\ "a" \in written
  /\ "eSum" \in created
  /\ runs = NoRuns
  /\ ComputedGet(St, "sum").v = Den("sum", value)
  /\ observed["eSum"] # Den("eSum", value)

\* C10: at most one deferred flush callback waits on the host queue, and one
\* waits exactly when flushScheduled is set.
OneDeferredFlush ==
  /\ microtasks <= 1
  /\ (microtasks = 1) <=> flushScheduled

\* scheduleFlush was called again while a callback was waiting.
SecondScheduleCoalesced ==
  /\ coalesced
  /\ flushScheduled
  /\ microtasks = 1

\* C11: flush() called while an asyncBatch is open only schedules the
\* deferred flush and runs no effect; called otherwise, when it returns every
\* effect that was pending and is not disposed has run and pendingEffects is
\* empty.
FlushRunsPending ==
  [][FlushCall =>
       IF isAsyncBatching
       THEN runs' = NoRuns /\ flushScheduled' /\ pendingEffects' = pendingEffects
       ELSE /\ pendingEffects' = <<>>
            /\ \A e \in Effects :
                 (Queued(e, pendingEffects) /\ Live(e)) => runs'[e] >= 1]_vars

\* C12: a call of the disposer invokes the stored cleanup function exactly
\* once and leaves the effect disposed; from then on no step runs the
\* effect's function or its cleanup, whatever is written and whether or not
\* the effect was queued in pendingEffects, and the effect stays disposed.
Disposal ==
  [][\A e \in Effects :
       /\ (client.disposes /\ Dispose(e)) =>
            /\ isDisposed'[e]
            /\ cleanups'[e] = IF cleanup[e] THEN 1 ELSE 0
            /\ runs'[e] = 0
       /\ isDisposed[e] =>
            /\ isDisposed'[e]
            /\ runs'[e] = 0
            /\ ~Dispose(e) => cleanups'[e] = 0]_vars

\* The effect was disposed while it was queued for the deferred flush, and a
\* later write to the signal it had read has not run it.
WrittenAfterDisposal ==
  /\ isDisposed["eClean"]
  /\ Queued("eClean", pendingEffects)
  /\ hist.phase = "set"
  /\ written = {"a"}
  /\ runs = NoRuns
  /\ observed["eClean"] # value["a"]

\* C13: a call of the disposer on an effect that is already disposed leaves
\* it disposed and without dependency edges or subscriptions, and does not
\* invoke the cleanup function again.
DisposerIdempotent ==
  [][\A e \in Effects :
       (client.disposes /\ isDisposed[e] /\ Dispose(e)) =>
         /\ isDisposed'[e]
         /\ dependencies'[e] = {}
         /\ unsubscribeFns'[e] = <<>>
         /\ cleanups'[e] = 0]_vars

\* The assignment with outcome r, made in state S, threw the read-only error
\* and left computed c as it was.
Rejected(S, r, c) ==
  /\ r.S.thrown = ReadOnlyError
  /\ r.S.cValue[c] = S.cValue[c]
  /\ r.S.dirty[c] = S.dirty[c]
  /\ r.S.cError[c] = S.cError[c]
  /\ r.S.subscribers[c] = S.subscribers[c]

\* C14: in every state an assignment to the value of a computed throws the
\* read-only error and leaves the computed's cached value, dirty flag, error
\* and listeners as they were; a client's assignment made at top level ends
\* with that error thrown and the computed unchanged.
ComputedReadOnly ==
  [][\A c \in Computeds : \A v \in Val :
       /\ Rejected(St, ComputedSet(St, c, v), c)
       /\ (stack = <<>> /\ c \in client.assigns /\ WriteComputed(c, v)) =>
            /\ thrown' = ReadOnlyError
            /\ cValue'[c] = cValue[c] /\ dirty'[c] = dirty[c]
            /\ cError'[c] = cError[c] /\ subscribers'[c] = subscribers[c]]_vars

\* The client assigned to a computed that was dirty and held a value: the
\* assignment threw and the computed is still dirty with that value.
AssignmentRejected ==
  /\ thrown = ReadOnlyError
  /\ stack = <<>>
  /\ dirty["guarded"]
  /\ cValue["guarded"] # Undefined

\* The read with outcome r, made in state S, threw the error cached on
\* computed c and did not run its function.
RethrewCached(S, r, c) ==
  /\ r.S.thrown = S.cError[c]
  /\ r.S.execs[c] = S.execs[c]
  /\ r.S.cError[c] = S.cError[c]

\* C15: a computed whose function throws caches the error: while it is not
\* dirty every read throws the cached error without running the function; a
\* value-changing write to a signal its latest run read marks it dirty and
\* clears the error, and a write to any other signal leaves both alone; a
\* read of a dirty computed runs the function once and, if it does not
\* throw, returns its value with no error cached; and on a computed that is
\* not dirty the error is set exactly when the function throws on the
\* current signal values.
ErrorCaching ==
  [][/\ ~dirty'["guarded"] =>
          /\ (cError'["guarded"] # NoError) <=> Fails(value'["a"])
          /\ (cError'["guarded"] = NoError) =>
               cValue'["guarded"] = Den("guarded", value')
     /\ (~dirty["guarded"] /\ cError["guarded"] # NoError) =>
          RethrewCached(St, ComputedGet(St, "guarded"), "guarded")
     /\ ("guarded" \in client.reads /\ stack' = stack /\ ReadComputed("guarded")) =>
          IF dirty["guarded"]
          THEN /\ execs'["guarded"] = 1
               /\ IF "guarded" \in failed'
                  THEN cError'["guarded"] = "Computed error" /\ thrown' = "Computed error"
                  ELSE /\ cError'["guarded"] = NoError /\ thrown' = NoError
                       /\ cValue'["guarded"] = Den("guarded", value)
          ELSE /\ execs'["guarded"] = 0
               /\ thrown' = cError["guarded"]
               /\ cError'["guarded"] = cError["guarded"]
     /\ \A s \in Signals : \A v \in ValOf(s) :
          (~dirty["guarded"] /\ Changes(s, v)) =>
            IF s \in lastReads["guarded"]
            THEN dirty'["guarded"] /\ cError'["guarded"] = NoError
            ELSE ~dirty'["guarded"] /\ cError'["guarded"] = cError["guarded"]]_vars

\* A read of the computed threw the cached error without running its function.
CachedErrorRethrown ==
  /\ thrown = "Computed error"
  /\ cError["guarded"] = "Computed error"
  /\ ~dirty["guarded"]
  /\ execs["guarded"] = 0

\* The computeds whose function reads its own value, directly or through
\* the other one.
Circular == {"circ", "ping", "pong"}

\* The read with outcome r threw the circular-dependency error and left
\* subscriberStack empty.
CircularOutcome(r) ==
  /\ r.S.thrown = CircularError
  /\ r.S.subscriberStack = <<>>
  /\ r.S.currentSubscriber = NoFn

\* C16: a read of a computed that reads itself, directly or through a cycle
\* of computeds, terminates and throws the circular-dependency error, the
\* first time and every later time, and subscriberStack is empty afterwards.
CircularDetected ==
  [][\A c \in Circular :
       c \in client.reads =>
         /\ CircularOutcome(ComputedGet(St, c))
         /\ ReadComputed(c) =>
              /\ thrown' = CircularError
              /\ cError'[c] = CircularError
              /\ ~dirty'[c]
              /\ subscriberStack' = <<>>]_vars

\* Both computeds of the cycle have been read: each holds the error and the
\* latest read threw it.
CycleReadTwice ==
  /\ thrown = CircularError
  /\ cError["ping"] = CircularError /\ ~dirty["ping"]
  /\ cError["pong"] = CircularError /\ ~dirty["pong"]
  /\ cError["circ"] = CircularError /\ ~dirty["circ"]
  /\ subscriberStack = <<>>

Subscribed(e, s) == Runner(e) \in Range(subscribers[s])

\* C17: with no batch open, a value-changing write to a signal read by a
\* live effect runs the effect once; if its function throws, the write
\* throws that error to its caller, with or without a global handler and a
\* boundary with onRecover, and otherwise it returns normally; either way
\* the effect is subscribed afterwards to the signals it read, so that the
\* next such write runs it again.
FailingEffectRaises ==
  [][\A s \in Signals : \A v \in ValOf(s) :
       (stack = <<>> /\ Live("eGuard") /\ Changes(s, v)) =>
         /\ Subscribed("eGuard", s)
         /\ runs'["eGuard"] = 1
         /\ ("eGuard" \in failed') <=> Fails(value'["a"])
         /\ thrown' = IF "eGuard" \in failed' THEN "Effect error" ELSE NoError
         /\ Subscribed("eGuard", "a")' /\ Subscribed("eGuard", "b")']_vars

\* A second consecutive write ran the failing effect again and threw, after
\* the global handler and onRecover had been called.
SecondFailureRaised ==
  /\ hist.phase = "set"
  /\ thrown = "Effect error"
  /\ runs["eGuard"] = 1
  /\ errorCount["eGuard"] = 2
  /\ client.onRecover
  /\ reported # <<>>

\* C18: a failing run of an effect adds one to its count of consecutive
\* failures and a successful run resets the count; the effect is disposed
\* exactly from its third consecutive failure on, so that the count never
\* exceeds three; and the failing write at top level still throws the error.
AutoDisposeAfterThree ==
  [][\A e \in Effects :
       /\ errorCount'[e] <= 3
       /\ runs'[e] >= 1 =>
            IF e \in failed'
            THEN /\ errorCount'[e] = errorCount[e] + 1
                 /\ isDisposed'[e] <=> errorCount'[e] >= 3
                 /\ (stack = <<>> /\ hist'.phase = "set") => thrown' = "Effect error"
            ELSE errorCount'[e] = 0 /\ ~isDisposed'[e]]_vars

\* The reports of the step hold one to `to` at a position after `from`.
ReportedTo(to, from) ==
  \E i \in DOMAIN reported' : i > from /\ reported'[i].to = to

\* C19: when the function of a computed or of an effect throws, the error is
\* reported to the global handler if one is set, and, if the node has an
\* error boundary, to the boundary's onError and after that to its onRecover
\* if it defines one.
ErrorRouting ==
  [][\A n \in failed' :
       /\ client.handler => ReportedTo("globalErrorHandler", 0)
       /\ n = client.boundary =>
            \E i \in DOMAIN reported' :
              /\ reported'[i].to = "onError"
              /\ client.onRecover => ReportedTo("onRecover", i)]_vars

\* C20: when the function of a queued effect throws while a flush runs it,
\* at the return of the outermost batch or in flush(), that call throws the
\* error to its caller.
FlushRethrows ==
  [][(failed' \cap Effects # {} /\ (BatchExit \/ FlushCall)) =>
       thrown' = "Effect error"]_vars

\* The normal return of every open scope, innermost first.
RECURSIVE ReturnAll(_)
ReturnAll(S) ==
  IF S.stack = <<>> THEN S
  ELSE ReturnAll(IF S.stack[Len(S.stack)].kind = "batch"
                 THEN BatchFinally(S) ELSE AsyncBatchFinally(S))

\* States S and T agree on the scheduler, the cells and what the effects did.
SameOutcome(S, T) ==
  /\ S.isBatching = T.isBatching /\ S.isAsyncBatching = T.isAsyncBatching
  /\ S.asyncBatchingDepth = T.asyncBatchingDepth
  /\ S.dirtyComputeds = T.dirtyComputeds /\ S.pendingEffects = T.pendingEffects
  /\ S.flushScheduled = T.flushScheduled /\ S.microtasks = T.microtasks
  /\ S.isReentrant = T.isReentrant /\ S.reentrantDepth = T.reentrantDepth
  /\ S.isFlushingEffects = T.isFlushingEffects
  /\ S.value = T.value /\ S.cValue = T.cValue /\ S.dirty = T.dirty
  /\ S.subscribers = T.subscribers /\ S.dependencies = T.dependencies
  /\ S.observed = T.observed /\ S.runs = T.runs

\* C21: when a statement of fn throws inside batch(fn) or asyncBatch(fn),
\* nested or not, the error reaches the client, every scope is closed with
\* isBatching, isAsyncBatching and asyncBatchingDepth back to their values
\* before the outermost call, dirtyComputeds is empty, and the scheduler,
\* the cells and the effects are as the normal return of the scopes would
\* have left them: queued effects have run where only batches were open and
\* wait for one deferred flush where only asyncBatches were open.
ScopesSurviveThrow ==
  [][\A c \in Computeds : \A v \in Val :
       (stack # <<>> /\ c \in client.assigns /\ WriteComputed(c, v)) =>
         /\ thrown' = ReadOnlyError
         /\ stack' = <<>>
         /\ ~isBatching' /\ ~isAsyncBatching' /\ asyncBatchingDepth' = 0
         /\ dirtyComputeds' = <<>>
         /\ SameOutcome(St', ReturnAll(Begin(St)))
         /\ AllOfKind("batch") =>
              /\ pendingEffects' = <<>>
              /\ \A e \in Effects :
                   (Live(e) /\ Queued(e, pendingEffects)) => runs'[e] = 1
         /\ AllOfKind("asyncBatch") =>
              /\ runs' = NoRuns
              /\ pendingEffects' = pendingEffects
              /\ flushScheduled' /\ microtasks' = 1]_vars

\* An assignment to a computed threw inside a batch that had written a: the
\* batch is closed, the error was reported for the batch and the effect it
\* had queued has run on the written value.
ThrowingBatchFlushed ==
  /\ thrown = ReadOnlyError
  /\ stack = <<>>
  /\ ~isBatching
  /\ isInErrorState
  /\ runs["eSum"] = 1
  /\ observed["eSum"] = Den("eSum", value)
  /\ pendingEffects = <<>>

\* The effects whose function reads inside untracked.
Peeking == {"ePeek", "ePeekSum", "eNest"}

\* C22: an effect holds a dependency edge and a listener registration only
\* on the cells it read outside of untracked; with no batch open a
\* value-changing write to a signal it read only inside untracked, directly
\* or as the input of a computed read there, does not run it and leaves what
\* it observed, while a write to a signal it read outside runs it once.
UntrackedReads ==
  [][\A e \in Peeking :
       Live(e) =>
         /\ dependencies[e] = lastReads[e]
         /\ \A x \in Cells : Subscribed(e, x) => x \in lastReads[e]
         /\ \A s \in Signals : \A v \in ValOf(s) :
              (stack = <<>> /\ Changes(s, v)) =>
                IF DependsOn(e, s)
                THEN runs'[e] = 1
                ELSE runs'[e] = 0 /\ observed'[e] = observed[e]]_vars

\* b, an input of the computed the effect read inside untracked, was
\* written: the effect did not run and holds the sum it saw before.
UntrackedInputWritten ==
  /\ "ePeekSum" \in created
  /\ hist.phase = "set"
  /\ written = {"b"}
  /\ runs = NoRuns
  /\ observed["ePeekSum"] # Den("ePeekSum", value)

\* C23: untracked restores the tracking mode it found, when its function
\* returns and when it throws: the effect that reads a in an untracked call
\* nested in another, b in the outer call after the inner one returned, and
\* c after the outer call and after an untracked call that threw, depends on
\* c alone, so that only a write to c runs it; and no statement leaves
\* isUntracked set.
UntrackedRestores ==
  [][/\ ~isUntracked'
     /\ Live("eNest") =>
          /\ dependencies["eNest"] = {"c"}
          /\ Subscribed("eNest", "c")
          /\ ~Subscribed("eNest", "a") /\ ~Subscribed("eNest", "b")
          /\ \A s \in Signals : \A v \in ValOf(s) :
               (stack = <<>> /\ Changes(s, v)) =>
                 runs'["eNest"] = IF s = "c" THEN 1 ELSE 0]_vars

\* A write to c, read after both untracked calls had returned, ran the effect.
TrackedAgainAfterUntracked ==
  /\ "eNest" \in created
  /\ hist.phase = "set"
  /\ written = {"c"}
  /\ runs["eNest"] = 1
  /\ ~isUntracked
  /\ observed["eNest"] = Den("eNest", value)

\* C24: a computed that was recomputed while untracked was active has an
\* edge to every signal and computed its function reads, so that whenever
\* it is not dirty it holds the value its function denotes on the current
\* signal values.
UntrackedComputedTracks ==
  [][\A c \in {"sum", "fin"} :
       (client.effects \in {<<"ePeekSum">>, <<"eDeep">>} /\ ~dirty'[c]
        /\ cValue'[c] # Undefined) =>
         /\ dependencies'[c] = lastReads'[c]
         /\ cValue'[c] = Den(c, value')]_vars

\* C25: the subscriber stack never holds more than ten executing nodes
\* without the reentrancy-limit error being thrown to the caller: a
\* statement during which the stack grew beyond the cap ends with that error.
ReentrancyCap ==
  deepest > ReentrantCap => thrown = ReentrantError

\* The registrations of callback f in the listener set of s.
Registrations(s, f) ==
  Cardinality({i \in DOMAIN subscribers[s] : subscribers[s][i] = Callback(f)})

\* C26: subscribe is an idempotent add: however often a callback was
\* subscribed it is registered once, and a value-changing write outside any
\* batch calls it once; a write calls no callback that is not registered;
\* the closure subscribe returned removes that callback and leaves every
\* other listener of the signal registered.
SubscribeIdempotent ==
  [][\A s \in {"a"} : \A f \in Listeners :
       /\ Registrations(s, f)' <= 1
       /\ \A v \in ValOf(s) :
            (client.subscribes # {} /\ Changes(s, v)) =>
               /\ (stack = <<>> /\ thrown' = NoError) => called'[f] = Registrations(s, f)
               /\ Registrations(s, f) = 0 =>
                    /\ called'[f] = 0
                    /\ Callback(f) \in Range(pendingEffects')
                          => Callback(f) \in Range(pendingEffects)
       /\ ([cell |-> s, fn |-> f] \in held /\ Unsubscribe(s, f)) =>
            /\ Registrations(s, f)' = 0
            /\ \A x \in Range(subscribers[s]) \ {Callback(f)} :
                 x \in Range(subscribers'[s])]_vars

\* After the unsubscribe of callback f, a write has called callback g once
\* and f not at all.
OnlyRegisteredCalled ==
  /\ client.subscribes # {}
  /\ stack = <<>>
  /\ "a" \in written
  /\ called = [f \in Listeners |-> IF f = "g" THEN 1 ELSE 0]
  /\ [cell |-> "a", fn |-> "f"] \in held
  /\ Registrations("a", "f") = 0
  /\ Registrations("a", "g") = 1

\* C27: computed reads are never stale: whatever the scheduler was doing
\* when a signal was written, a computed that holds a value and is not dirty
\* holds the value its function denotes, given that its latest run left it
\* registered on every cell it read.
NeverStale ==
  \A c \in Computeds :
    (cValue[c] # Undefined /\ ~dirty[c] /\ cError[c] = NoError
     /\ dependencies[c] = lastReads[c]) =>
       cValue[c] = Den(c, value)

\* C28: a computed's function is executed only while the computed is dirty:
\* in no statement, a read or a scheduler step (the end of a batch or of an
\* asyncBatch, a flush), is the function of a computed executed that is not
\* dirty when its recompute starts.
Memoized == \A c \in Computeds : cleanExecs[c] = 0

\* The registrations of computed c in the listener set of cell x.
Arrows(c, x) ==
  {l \in Range(subscribers[x]) : l.id = c /\ l.kind \in {"notify", "current"}}

\* C29: between statements every registration that can notify a computed or
\* an effect is on a cell it read at its latest run and was made by that run:
\* a notify arrow is one of those the latest recompute stored for its next
\* teardown, and of the arrows a recompute registers as currentSubscriber,
\* a new one each time, no cell holds two of the same computed.
EdgesRebuilt ==
  /\ \A c \in Computeds : \A x \in Cells :
       /\ Arrows(c, x) # {} => x \in lastReads[c]
       /\ \A l \in Arrows(c, x) :
            l.kind = "notify" => [cell |-> x, fn |-> l] \in Range(unsubscribeFns[c])
       /\ Cardinality({l \in Arrows(c, x) : l.kind = "current"}) <= 1
  /\ \A e \in Effects : \A x \in Cells : Subscribed(e, x) => x \in lastReads[e]

\* The effects whose function writes a signal.
Writing == {"eLoop", "eBatch"}

\* C30: with no batch open, a value-changing write to a signal runs every
\* live effect whose latest run read the signal, directly, through computeds
\* or both, exactly once before it returns (effects that write signals
\* themselves aside, whose own writes are further writes).
RunsOncePerWrite ==
  [][\A s \in Signals : \A v \in ValOf(s) : \A e \in Effects \ Writing :
       (stack = <<>> /\ Changes(s, v) /\ Live(e) /\ DependsOn(e, s)) =>
         runs'[e] = 1]_vars

\* C31: no queued effect is lost: a step that removes a live effect from
\* pendingEffects, the flush at the end of a batch, of a batch nested in an
\* asyncBatch or the other way round, the deferred callback or flush(), has
\* run that effect.
NoQueuedEffectLost ==
  [][\A e \in Effects :
       (Live(e) /\ Queued(e, pendingEffects) /\ ~Queued(e, pendingEffects')) =>
         runs'[e] >= 1]_vars

\* The effects among a sequence of listener functions, in its order.
EffectsOf(fns) ==
  LET rs == SelectSeq(fns, LAMBDA f : f.kind = "runner")
  IN [i \in DOMAIN rs |-> rs[i].id]

\* C32: the flush at the end of an outermost batch runs the effects queued in
\* it, each once, in the order in which they were first added to the queue,
\* leaving out only those disposed by the time batch returns; a later write
\* that queues an effect again does not move it.
FlushOrder ==
  [][(Len(stack) = 1 /\ BatchExit) =>
       /\ ranOrder' = SelectSeq(EffectsOf(firstQueued), LAMBDA e : runs'[e] >= 1)
       /\ \A e \in Range(EffectsOf(firstQueued)) : ~isDisposed'[e] => runs'[e] >= 1]_vars

\* A batch that changed a and b has returned; its flush ran the effect on b
\* before the effect on a, against the order of their creation.
RequeuedKeptPlace ==
  /\ hist.phase = "batchReturned"
  /\ written = {"a", "b"}
  /\ client.effects = <<"eA", "eB">>
  /\ ranOrder = <<"eB", "eA">>

\* C33: disposal wins over a notification in flight: when the listener pass
\* of a write, or a flush, reaches the runner of an effect that was disposed
\* after the pass took its snapshot, the effect's function is not executed.
DisposalWins == \A e \in Effects : atDisposed[e] # "executed"

\* The first effect of the pass ran and disposed the second, whose runner,
\* held in the snapshot of the same pass, was then called and returned.
DisposedInFlight ==
  /\ client.effects = <<"eKill", "eA">>
  /\ ranOrder = <<"eKill">>
  /\ atDisposed["eA"] = "returned"
  /\ runs["eA"] = 0

\* The place of listener function fn in the listener set of s.
Place(s, fn) == CHOOSE i \in DOMAIN subscribers[s] : subscribers[s][i] = fn

\* C34: no rollback on partial failure: a value-changing write with no batch
\* open whose listener pass reaches the callback that throws stores the new
\* value and throws the callback's error to the caller; the listeners
\* before the callback in the pass have been called (an effect has run and
\* observed the new value), the listeners after it have not, and the
\* callback is still registered; the next such write calls it again.
NoRollback ==
  [][\A s \in Signals : \A v \in ValOf(s) :
       (stack = <<>> /\ Changes(s, v) /\ Callback("t") \in Range(subscribers[s])) =>
         /\ called'["t"] = 1
         /\ Callback("t") \in Range(subscribers'[s])
         /\ callbackRuns = 0 =>
              /\ thrown' = SubscriptionError
              /\ \A i \in DOMAIN subscribers[s] :
                   LET fn == subscribers[s][i] IN
                   /\ (fn.kind = "listener" /\ i < Place(s, Callback("t"))) =>
                        called'[fn.id] = 1
                   /\ (fn.kind = "listener" /\ i > Place(s, Callback("t"))) =>
                        called'[fn.id] = 0
                   /\ (fn.kind = "runner" /\ i < Place(s, Callback("t"))) =>
                        runs'[fn.id] = 1 /\ observed'[fn.id] = Den(fn.id, value')
                   /\ (fn.kind = "runner" /\ i > Place(s, Callback("t"))) =>
                        runs'[fn.id] = 0 /\ observed'[fn.id] = observed[fn.id]]_vars

\* A write threw the callback's error with the new value stored: the effect
\* before the callback in the pass had run, the callback after it was not
\* called.
PartialPass ==
  /\ thrown = SubscriptionError
  /\ hist.phase = "set"
  /\ value["a"] = 1
  /\ runs["eA"] = 1 /\ observed["eA"] = 1
  /\ called["t"] = 1
  /\ called["f"] = 0
  /\ Registrations("a", "f") = 1
  /\ Registrations("a", "t") = 1

\* C35: the cleanup an effect stored is called before every re-run and at
\* disposal, and stays stored whether the run throws, returns a function or
\* not; when the cleanup throws, the write that caused the re-run throws its
\* error, the effect's function is not executed and the effect keeps its
\* dependencies and registrations.
CleanupLifecycle ==
  [][\A e \in Effects :
       /\ cleanup[e] => cleanup'[e]
       /\ (~cleanup[e] /\ cleanup'[e]) =>
            (ReturnsCleanup(e) /\ runs'[e] >= 1 /\ e \notin failed')
       /\ \A s \in Signals : \A v \in ValOf(s) :
            (stack = <<>> /\ Live(e) /\ cleanup[e] /\ Subscribed(e, s) /\ Changes(s, v)) =>
              IF ThrowingCleanup(e) /\ cleanupRuns = 0
              THEN /\ thrown' = CleanupError
                   /\ cleanups'[e] = 1
                   /\ runs'[e] = 0
                   /\ subscribers' = subscribers
                   /\ dependencies'[e] = dependencies[e]
                   /\ unsubscribeFns'[e] = unsubscribeFns[e]
              ELSE cleanups'[e] = 1 /\ runs'[e] = 1
       /\ (cleanup[e] /\ ~isDisposed[e] /\ Dispose(e)) => cleanups'[e] = 1]_vars

\* A write threw the error of the cleanup: the cleanup was called once, the
\* effect did not run and is still registered on the signal written.
CleanupThrewRunSkipped ==
  /\ thrown = CleanupError
  /\ hist.phase = "set"
  /\ cleanups["eSour"] = 1
  /\ runs["eSour"] = 0
  /\ observed["eSour"] # value["a"]
  /\ Subscribed("eSour", "a")
  /\ cleanup["eSour"]

\* C36: a notify() on a computed that is already dirty leaves the whole state
\* as it was (the cached error, dirtyComputeds, pendingEffects, every listener's
\* counters), so a computed makes at most one listener pass between the end
\* of one recompute() and the end of the next, however many of its
\* dependencies are written in between.
DirtyNotifyIdle ==
  /\ ~dirtyNotifyChanged
  /\ \A c \in Computeds : passes[c] <= 1

\* Both dependencies of sum were written inside one batch: the second write's
\* notify() found sum dirty, and sum has made one listener pass.
NotifiedWhileDirty ==
  /\ hist.phase = "open"
  /\ {"a", "b"} \subseteq written
  /\ dirtyNotifies["sum"] >= 1
  /\ passes["sum"] = 1
  /\ dirty["sum"]

Mentions(n) ==
  IF Fn(n).op = "seq"
  THEN {Fn(n).body[i].cell : i \in 1..Len(Fn(n).body)}
  ELSE Range(Fn(n).args)

\* C38: every computeFn and every effect function starts and ends with its
\* own node on top of subscriberStack, so a node depends only on cells its
\* function names; and whenever a statement of the client has returned or
\* thrown, subscriberStack is empty and currentSubscriber is null.
TrackingBalanced ==
  /\ ~offTop
  /\ subscriberStack = <<>>
  /\ currentSubscriber = NoFn
  /\ \A n \in Nodes : dependencies[n] \subseteq Mentions(n)

\* A read at top level threw the error of a computeFn that ran two levels
\* deep or more.
ThrewFromDepth ==
  /\ stack = <<>>
  /\ thrown # NoError
  /\ failed \cap Computeds # {}
  /\ deepest >= 2

\* C39: reentrantDepth never exceeds 1 and the reentrant guards never throw;
\* a flush requested while isReentrant is set recomputes the dirty computeds
\* and runs no effect; every effect function starts with isReentrant equal to
\* isFlushingEffects; and once a statement has returned, isReentrant and
\* isFlushingEffects are false and reentrantDepth is 0.
FlushesNeverNest ==
  /\ deepestFlush <= 1
  /\ thrown # ReentrantError
  /\ ~nestedFlushRan
  /\ ~skewed
  /\ ~isReentrant
  /\ ~isFlushingEffects
  /\ reentrantDepth = 0

\* The flush of a batch of the client ran eBatch, whose own batch requested
\* a flush while the first was draining.
NestedFlushRequested ==
  /\ stack = <<>>
  /\ hist.phase = "batchReturned"
  /\ runs["eBatch"] >= 1
  /\ nestedFlushes >= 1
  /\ deepestFlush = 1

====
